---- MODULE Spec2Model ----
(***************************************************************************)
(* Zog.js v0.4.7 (src/unnamed/part_001): the reactivity core (Dep,         *)
(* ReactiveEffect, the flush queue, reactive(), ref(), computed()), Scope, *)
(* and the z-if / z-for reconciliation of compile().                       *)
(*                                                                         *)
(* JavaScript runs one synchronous block at a time, so every handler is    *)
(* one action.  The operators below take the whole program state as a      *)
(* record S and return the state after the call; an action applies them    *)
(* to the current state (Cur) and commits the result.                      *)
(***************************************************************************)
EXTENDS Integers, Sequences, FiniteSets, TLC

VARIABLES
    val,          \* own properties of the raw target of container c: key -> value
    refv,         \* `v` in the closure of the ref r (NoRef before ref() returned)
    effects,      \* effect id -> [fn, scheduler, deps, active]
    effectId,     \* next creation-order id
    subs,         \* Dep -> its subscriber Set, in insertion order
    effectQueue,  \* pending effects, in enqueue order
    isFlushing,   \* the flag queueEffect tests
    pendingFlush, \* flushEffects microtasks scheduled and not yet started
    activeEffect, \* currently running effect, Null when none
    effectStack,  \* stack of running effects
    cvalue,       \* `value` in the closure of the computed cp
    dirty,        \* `dirty` in the closure of the computed cp
    proxies,      \* proxy id -> raw target it wraps (every Proxy ever constructed)
    reactiveMap,  \* raw target -> proxy id, NoProxy when the WeakMap has no entry
    scopes,       \* scope id -> [effects, listeners, children] of every Scope constructed
    attached,     \* listeners added to their element and not removed
    listenerId,   \* listeners ever added (the next one's id minus one)
    released,     \* history: <<"stop", effect, scope>> / <<"remove", listener, scope>> calls
                  \*          Scope.cleanup made in the last action, in order
    list,         \* the array stored under c.list
    branches,     \* z-if: the group's branches [type, exp, el, scope], in source order
    itemsMap,     \* z-for: the Map key -> item as a list of [key, clone, scope, itemValue, itemRef]
    keyAttr,      \* z-for: the :key expression ("" when the element has none)
    irefs,        \* z-for: the values of the Refs created for primitive items
    dom,          \* the clones that follow the directive's placeholder in its parent
    nodeId,       \* clones created so far
    mountedPeak,  \* history: largest number of branches mounted at once during the last action
    ran,          \* history: effects whose fn was invoked by the last action, in order
    notified,     \* history: effects Dep.notify handed to scheduler/queueEffect in the last action
    err,          \* history: what the last action threw to its caller / logged
    ret,          \* history: value the last action returned to its caller
    cret,         \* history: the array the last read of cp.value returned (<<>> when none)
    getterCalls,  \* history: invocations of cp's getter since a tracked Dep's slot last changed
    writes,       \* history: keys of c whose stored value changed since the last flush began
    flushed,      \* history: effectQueue as the flush of the last action found it (before the sort)
    threw         \* history: effects whose run threw during the last action, in order

vars == <<val, refv, effects, effectId, subs, effectQueue, isFlushing, pendingFlush,
          activeEffect, effectStack, cvalue, dirty, proxies, reactiveMap,
          scopes, attached, listenerId, released,
          list, branches, itemsMap, keyAttr, irefs, dom, nodeId, mountedPeak, ran, notified, err, ret, cret, getterCalls, writes,
          flushed, threw>>

-----------------------------------------------------------------------------
(* Bounds *)
MaxEffects == 2      \* effects watchEffect creates in one behaviour of the core
MaxScopes == 3       \* Scopes constructed in one behaviour (the root included)
MaxScopeEffects == 3 \* effects registered in Scopes in one behaviour
MaxListeners == 1    \* event listeners added in one behaviour
MaxProxies == 4      \* Proxy objects constructed in one behaviour
MaxMounts == 3       \* branch clones a conditional group creates in one behaviour
MaxLen == 2          \* length of the arrays assigned to c.list
MaxClones == 4       \* item clones a list creates in one behaviour

(* Values.  A value is <<kind, n>>: a primitive, a raw container (target n) *)
(* or the n-th Proxy constructed.                                           *)
Null == -1
NoProxy == 0
Prim(n) == <<"prim", n>>
Raw(t) == <<"raw", t>>
Proxy(p) == <<"proxy", p>>
Undefined == <<"undefined", 0>>
Absent == <<"absent", 0>>      \* marks a key the raw target does not own
NoRef == <<"noref", 0>>
Prims == {Prim(0), Prim(1)}
RootTarget == 0                \* raw target of the container c
NestedTarget == 1              \* a raw object the application stores under c.a
OtherTarget == 2               \* another raw object of the application
TwinTarget == 3                \* a raw object with the same id property as NestedTarget
Targets == {RootTarget, NestedTarget, OtherTarget, TwinTarget}
Keys == {"a", "b"}
(* Deps of the array c.list was constructed with: one per index, length, iteration *)
IdxDep(i) == "list." \o ToString(i)
ArrayDeps == {IdxDep(i) : i \in 0..MaxLen} \cup {"list.length", "list.iter"}
(* The Dep of the Ref created for the primitive list item r *)
IRefDep(r) == "iref." \o ToString(r)
ItemRefDeps == {IRefDep(r) : r \in 1..MaxClones}
Deps == {"c.a", "c.b", "c.list", "c.iter", "r", "cp"} \cup ArrayDeps \cup ItemRefDeps
KeyDep(k) == "c." \o k
CpEffect == 0                  \* the computed's internal effect is created first

InSeq(x, s) == \E i \in 1..Len(s) : s[i] = x
Count(x, s) == Cardinality({i \in 1..Len(s) : s[i] = x})
Remove(s, x) == SelectSeq(s, LAMBDA y : y # x)
NoDup(s) == \A i, j \in 1..Len(s) : s[i] = s[j] => i = j
Range(s) == {s[i] : i \in 1..Len(s)}

isObj(v) == v[1] \in {"raw", "proxy"}
IsReactive(v) == v[1] = "proxy"
ObjectIs(x, y) == x = y

(* The text effect {{ c.b }} compiled in the Scope of a primitive list item:  *)
(* evalExp unwraps every Ref of the scope data, so it reads the item's Ref r *)
ItemFn(r) == "item." \o ToString(r)
ItemFns == {ItemFn(r) : r \in 1..MaxClones}
RefOf(fn) == CHOOSE r \in 1..MaxClones : ItemFn(r) = fn

(* Effect bodies: the functions the application passes to watchEffect.      *)
(* A body is a list of operations on c, r and cp.                           *)
Body(fn) ==
    CASE fn \in ItemFns -> << [op |-> "getiref", k |-> "", v |-> <<"ref", RefOf(fn)>>],
                              [op |-> "get", k |-> "b", v |-> Undefined] >>
      [] fn = "readA"   -> << [op |-> "get", k |-> "a", v |-> Undefined] >>
      [] fn = "readAB"  -> << [op |-> "get", k |-> "a", v |-> Undefined],
                              [op |-> "get", k |-> "b", v |-> Undefined] >>
      [] fn = "readR"   -> << [op |-> "getr", k |-> "", v |-> Undefined] >>
      [] fn = "readCp"  -> << [op |-> "getc", k |-> "", v |-> Undefined] >>
      [] fn = "cpSetA"  -> << [op |-> "getc", k |-> "", v |-> Undefined],
                              [op |-> "set", k |-> "a", v |-> Prim(1)] >>
      [] fn = "getter"  -> << [op |-> "get", k |-> "a", v |-> Undefined],
                              [op |-> "get", k |-> "b", v |-> Undefined] >>
      [] fn = "readB"   -> << [op |-> "get", k |-> "b", v |-> Undefined] >>
      [] fn = "zif"     -> << [op |-> "zif", k |-> "", v |-> Undefined] >>
      [] fn = "zfor"    -> << [op |-> "zfor", k |-> "", v |-> Undefined] >>
      [] fn = "readBSetA" -> << [op |-> "get", k |-> "b", v |-> Undefined],
                                [op |-> "set", k |-> "a", v |-> Prim(1)] >>
      [] fn = "throwA"  -> << [op |-> "get", k |-> "a", v |-> Undefined],
                              [op |-> "throwif", k |-> "", v |-> Undefined] >>
      [] fn = "readI0"  -> << [op |-> "geti", k |-> "", v |-> Prim(0)] >>
      [] fn = "readI1"  -> << [op |-> "geti", k |-> "", v |-> Prim(1)] >>
      [] fn = "readLen" -> << [op |-> "getlen", k |-> "", v |-> Undefined] >>
      [] fn = "iterate" -> << [op |-> "foreach", k |-> "", v |-> Undefined] >>
      [] fn = "stopSelf" -> << [op |-> "get", k |-> "b", v |-> Undefined],
                               [op |-> "stopif", k |-> "", v |-> Undefined],
                               [op |-> "get", k |-> "a", v |-> Undefined] >>
      [] fn = "readASetA" -> << [op |-> "get", k |-> "a", v |-> Undefined],
                                [op |-> "set", k |-> "a", v |-> Prim(1)] >>
      [] fn = "enumerate" -> << [op |-> "keys", k |-> "", v |-> Undefined] >>
      [] fn = "nest"     -> << [op |-> "watch", k |-> "readA", v |-> Undefined],
                               [op |-> "get", k |-> "b", v |-> Undefined] >>
      [] fn = "nestCatch" -> << [op |-> "trywatch", k |-> "throwA", v |-> Undefined],
                                [op |-> "get", k |-> "b", v |-> Undefined] >>
      [] fn = "readBIfA" -> << [op |-> "get", k |-> "a", v |-> Undefined],
                               [op |-> "getif", k |-> "b", v |-> Undefined] >>
      [] OTHER          -> << >>
UserBodies == {"readA", "readAB", "readR", "readCp", "cpSetA"}
Schedulers == {"none", "sync"}   \* opts.scheduler absent, or job => job()

-----------------------------------------------------------------------------
(* The program state as one record *)
Cur == [val |-> val, refv |-> refv, effects |-> effects, effectId |-> effectId,
        subs |-> subs, effectQueue |-> effectQueue, isFlushing |-> isFlushing,
        pendingFlush |-> pendingFlush, activeEffect |-> activeEffect,
        effectStack |-> effectStack, cvalue |-> cvalue, dirty |-> dirty,
        proxies |-> proxies, reactiveMap |-> reactiveMap,
        scopes |-> scopes, attached |-> attached, listenerId |-> listenerId,
        released |-> <<>>,
        list |-> list, branches |-> branches, itemsMap |-> itemsMap, keyAttr |-> keyAttr,
        irefs |-> irefs, dom |-> dom, nodeId |-> nodeId,
        mountedPeak |-> Cardinality({i \in 1..Len(branches) : branches[i].el # Null}),
        chosen |-> 0, newItemsMap |-> <<>>, newKeys |-> <<>>,
        ran |-> <<>>, notified |-> <<>>, err |-> "none", ret |-> Undefined,
        cret |-> <<>>, fnret |-> <<>>,
        getterCalls |-> getterCalls, writes |-> writes, thrown |-> FALSE,
        flushed |-> <<>>, threw |-> <<>>, creating |-> Null]

Commit(S) ==
    /\ val' = S.val /\ refv' = S.refv /\ effects' = S.effects
    /\ effectId' = S.effectId /\ subs' = S.subs /\ effectQueue' = S.effectQueue
    /\ isFlushing' = S.isFlushing /\ pendingFlush' = S.pendingFlush
    /\ activeEffect' = S.activeEffect /\ effectStack' = S.effectStack
    /\ cvalue' = S.cvalue /\ dirty' = S.dirty
    /\ proxies' = S.proxies /\ reactiveMap' = S.reactiveMap
    /\ scopes' = S.scopes /\ attached' = S.attached /\ listenerId' = S.listenerId
    /\ released' = S.released
    /\ list' = S.list /\ branches' = S.branches /\ itemsMap' = S.itemsMap
    /\ keyAttr' = S.keyAttr /\ irefs' = S.irefs /\ dom' = S.dom /\ nodeId' = S.nodeId
    /\ mountedPeak' = S.mountedPeak
    /\ ran' = S.ran /\ notified' = S.notified /\ err' = S.err /\ ret' = S.ret
    /\ cret' = S.cret
    /\ getterCalls' = S.getterCalls /\ writes' = S.writes
    /\ flushed' = S.flushed /\ threw' = S.threw

(* An action whose return value the application does not use *)
NoReturn(S) == [S EXCEPT !.ret = Undefined, !.cret = <<>>]

Throw(S, what) == [S EXCEPT !.thrown = TRUE, !.err = what]

-----------------------------------------------------------------------------
(* Dep *)
depend(S, d) ==
    IF S.activeEffect # Null /\ ~InSeq(S.activeEffect, S.subs[d])
    THEN [S EXCEPT !.subs[d] = Append(@, S.activeEffect),
                   !.effects[S.activeEffect].deps = Append(@, d)]
    ELSE S

(* queueEffect without the includes() test *)
queueEffect_NoDedup(S, e) ==
    LET S1 == [S EXCEPT !.effectQueue = Append(@, e)]
    IN  IF ~S1.isFlushing
        THEN [S1 EXCEPT !.isFlushing = TRUE, !.pendingFlush = @ + 1]
        ELSE S1

queueEffect(S, e) ==
    IF ~InSeq(e, S.effectQueue)
    THEN LET S1 == [S EXCEPT !.effectQueue = Append(@, e)]
         IN  IF ~S1.isFlushing
             THEN [S1 EXCEPT !.isFlushing = TRUE, !.pendingFlush = @ + 1]
             ELSE S1
    ELSE S

(* ReactiveEffect.cleanup without dep.subs.delete(this) *)
cleanup_KeepsSubs(S, e) == [S EXCEPT !.effects[e].deps = <<>>]

(* ReactiveEffect.cleanup *)
cleanup(S, e) ==
    [S EXCEPT !.subs = [d \in Deps |->
                          IF InSeq(d, S.effects[e].deps) THEN Remove(S.subs[d], e)
                          ELSE S.subs[d]],
              !.effects[e].deps = <<>>]

(* reactive() without the reactiveMap lookup *)
reactive_NoMap(S, target) ==
    IF ~isObj(target) \/ IsReactive(target) THEN [S EXCEPT !.ret = target]
    ELSE [S EXCEPT !.proxies = Append(@, target[2]),
                   !.reactiveMap[target[2]] = Len(S.proxies) + 1,
                   !.ret = Proxy(Len(S.proxies) + 1)]

(* reactive(target) *)
reactive(S, target) ==
    IF ~isObj(target) \/ IsReactive(target) THEN [S EXCEPT !.ret = target]
    ELSE IF S.reactiveMap[target[2]] # NoProxy
         THEN [S EXCEPT !.ret = Proxy(S.reactiveMap[target[2]])]
         ELSE [S EXCEPT !.proxies = Append(@, target[2]),
                        !.reactiveMap[target[2]] = Len(S.proxies) + 1,
                        !.ret = Proxy(Len(S.proxies) + 1)]

RECURSIVE run(_, _), ExecOps(_, _, _), ExecRest(_, _, _), notify(_, _),
          NotifyEach(_, _, _), computedScheduler(_), computedGet(_), proxySet(_, _, _),
          zifEffect(_), zforEffect(_), watchEffect(_, _, _)

(* notify that runs an effect without a scheduler at once instead of queueing it *)
trigger_Sync(S, e) ==
    CASE S.effects[e].scheduler = "computed" -> computedScheduler(S)
      [] OTHER                               -> run(S, e)

(* e.scheduler ? e.scheduler(e.run.bind(e)) : queueEffect(e) *)
trigger(S, e) ==
    CASE S.effects[e].scheduler = "computed" -> computedScheduler(S)
      [] S.effects[e].scheduler = "sync"     -> run(S, e)
      [] OTHER                               -> queueEffect(S, e)

(* Dep.notify without the test e !== activeEffect *)
isActiveEffect_Never(S, e) == FALSE

(* Dep.notify: e === activeEffect *)
isActiveEffect(S, e) == e = S.activeEffect

(* Dep.notify: iterates a snapshot of the subscriber set *)
NotifyEach(S, snapshot, i) ==
    IF i > Len(snapshot) \/ S.thrown THEN S
    ELSE IF isActiveEffect(S, snapshot[i]) THEN NotifyEach(S, snapshot, i + 1)
    ELSE NotifyEach(trigger([S EXCEPT !.notified = Append(@, snapshot[i])], snapshot[i]),
                    snapshot, i + 1)

notify(S, d) == NotifyEach(S, S.subs[d], 1)

(* computed: the scheduler of the internal effect *)
computedScheduler(S) ==
    IF ~S.dirty THEN notify([S EXCEPT !.dirty = TRUE], "cp") ELSE S

(* Proxy get trap: the value handed out for res = Reflect.get(t, k, r) *)
wrap(S, res) ==
    IF isObj(res)
    THEN (IF IsReactive(res) THEN [S EXCEPT !.ret = res] ELSE reactive(S, res))
    ELSE [S EXCEPT !.ret = res]

(* Proxy get trap of c *)
proxyGet(S, k) ==
    wrap(depend(S, KeyDep(k)), IF S.val[k] = Absent THEN Undefined ELSE S.val[k])

(* set and deleteProperty traps without iterationDep.notify() *)
notifyIteration_Never(S, hadKey) == S

(* the second notify() of a trap, not reached when the first one threw *)
notifyLast(S, d) == IF S.thrown THEN S ELSE notify(S, d)

(* Proxy set trap: if (!hadKey) iterationDep.notify() *)
notifyIteration(S, hadKey) == IF ~hadKey THEN notify(S, "c.iter") ELSE S

(* Proxy set trap of c (c is not an array) *)
proxySet(S, k, v) ==
    LET old    == IF S.val[k] = Absent THEN Undefined ELSE S.val[k]
        hadKey == S.val[k] # Absent
        tracked == InSeq(KeyDep(k), S.effects[CpEffect].deps)
    IN  IF ~hadKey \/ ~ObjectIs(old, v)
        THEN notifyIteration(
                 notify([S EXCEPT !.val[k] = v,
                                  !.getterCalls = IF tracked /\ S.val[k] # v THEN 0 ELSE @,
                                  !.writes = IF S.val[k] # v THEN @ \cup {k} ELSE @],
                        KeyDep(k)),
                 hadKey)
        ELSE [S EXCEPT !.val[k] = v]

(* Proxy get trap of c for the key list *)
proxyGetList(S) == depend(S, "c.list")

(* Arrays.  c.list is the array c was constructed with; its elements are primitives. *)
(* Element i (from 0) of the array a, Absent past its end                            *)
At(a, i) == IF i < Len(a) THEN a[i + 1] ELSE Absent

(* c.list[i]: get trap of c, then get trap of the array *)
arrayGet(S, i) ==
    [depend(proxyGetList(S), IdxDep(i))
        EXCEPT !.ret = IF At(S.list, i) = Absent THEN Undefined ELSE At(S.list, i)]

(* c.list.length *)
arrayLength(S) ==
    [depend(proxyGetList(S), "list.length") EXCEPT !.ret = Prim(Len(S.list))]

(* Array.prototype.forEach.apply(this, args): the proxy is read at length, then *)
(* at each index (has trap, get trap)                                           *)
RECURSIVE DependEach(_, _)
DependEach(S, i) ==
    IF i >= Len(S.list) THEN S ELSE DependEach(depend(S, IdxDep(i)), i + 1)

(* c.list.forEach(v => ...): iterationDep.depend(), then the loop over the proxy *)
arrayForEach(S) ==
    DependEach(depend(depend(proxyGetList(S), "list.iter"), "list.length"), 0)

RECURSIVE SortValues(_)
SortValues(a) ==
    IF a = <<>> THEN <<>>
    ELSE LET i == CHOOSE j \in 1..Len(a) :
                     /\ \A h \in 1..Len(a) : a[j][2] <= a[h][2]
                     /\ \A h \in 1..(j - 1) : a[h][2] # a[j][2]
         IN  <<a[i]>> \o SortValues(SubSeq(a, 1, i - 1) \o SubSeq(a, i + 1, Len(a)))

(* Array.prototype[method].apply(raw, args): the array the call leaves *)
ArrayPrototype(method, a, x) ==
    CASE method = "push"    -> Append(a, x.v)
      [] method = "pop"     -> (IF a = <<>> THEN a ELSE SubSeq(a, 1, Len(a) - 1))
      [] method = "shift"   -> (IF a = <<>> THEN a ELSE Tail(a))
      [] method = "unshift" -> <<x.v>> \o a
      [] method = "splice"  -> SubSeq(a, 1, x.start) \o x.items
                                  \o SubSeq(a, x.start + x.count + 1, Len(a))
      [] method = "sort"    -> SortValues(a)
      [] method = "reverse" -> [i \in 1..Len(a) |-> a[Len(a) + 1 - i]]
      [] method = "fill"    -> [i \in 1..Len(a) |-> x.v]
      [] method = "copyWithin" ->
            [i \in 1..Len(a) |->
                IF i - 1 >= x.target /\ i - 1 - x.target + x.start < Len(a)
                THEN a[i - x.target + x.start] ELSE a[i]]

(* for (let i = 0; i < raw.length; i++) getDep(String(i)).notify() *)
RECURSIVE NotifyIndices(_, _)
NotifyIndices(S, i) ==
    IF i >= Len(S.list) \/ S.thrown THEN S
    ELSE NotifyIndices(notify(S, IdxDep(i)), i + 1)

MovesElements(method) == method \in {"sort", "reverse", "shift", "unshift"}

notifyPositions(S, method) ==
    IF MovesElements(method) /\ ~S.thrown THEN NotifyIndices(S, 0) ELSE S

notifyLength(S) == IF S.thrown THEN S ELSE notify(S, "list.length")

(* createArrayMethod for a mutator: applied to the raw array, then the notifications *)
arrayMutator(S, method, x) ==
    notifyPositions(
        notifyLength(notify([S EXCEPT !.list = ArrayPrototype(method, S.list, x)],
                            "list.iter")),
        method)

(* Proxy set trap of the array for an index key: c.list[i] = v, i <= length.      *)
(* getDep(k).notify(), then iterationDep.notify() (String(+k) === k)              *)
arraySet(S, i, v) ==
    LET hadKey == i < Len(S.list)
        old    == IF hadKey THEN S.list[i + 1] ELSE Undefined
        stored == IF hadKey THEN [S.list EXCEPT ![i + 1] = v] ELSE Append(S.list, v)
    IN  IF ~hadKey \/ ~ObjectIs(old, v)
        THEN notifyLast(notify([S EXCEPT !.list = stored], IdxDep(i)), "list.iter")
        ELSE [S EXCEPT !.list = stored]

(* Proxy set trap of the array for the key length: c.list.length = n, n <= length *)
(* (hadKey is true; k === 'length' notifies the iteration Dep as well)            *)
arraySetLength(S, n) ==
    IF ~ObjectIs(Len(S.list), n)
    THEN notifyLast(notify([S EXCEPT !.list = SubSeq(@, 1, n)], "list.length"), "list.iter")
    ELSE S

(* the Ref of a list item: get value / set value *)
itemRefGet(S, r) == [depend(S, IRefDep(r)) EXCEPT !.ret = S.irefs[r]]

itemRefSet(S, r, nv) ==
    IF isObj(nv) THEN Throw(S, "ref")
    ELSE IF ~ObjectIs(nv, S.irefs[r]) THEN notify([S EXCEPT !.irefs[r] = nv], IRefDep(r))
    ELSE S

(* Proxy ownKeys trap of c: Object.keys(c), for (k in c) *)
ownKeys(S) == depend(S, "c.iter")

(* deleteProperty trap without iterationDep.notify() *)
proxyDelete_KeyOnly(S, k) ==
    LET hadKey == S.val[k] # Absent
        tracked == InSeq(KeyDep(k), S.effects[CpEffect].deps)
    IN  IF hadKey
        THEN notify([S EXCEPT !.val[k] = Absent,
                              !.getterCalls = IF tracked THEN 0 ELSE @,
                              !.writes = @ \cup {k}],
                    KeyDep(k))
        ELSE S

(* Proxy deleteProperty trap of c *)
proxyDelete(S, k) ==
    LET hadKey == S.val[k] # Absent
        tracked == InSeq(KeyDep(k), S.effects[CpEffect].deps)
    IN  IF hadKey
        THEN notifyIteration(
                 notify([S EXCEPT !.val[k] = Absent,
                                  !.getterCalls = IF tracked THEN 0 ELSE @,
                                  !.writes = @ \cup {k}],
                        KeyDep(k)),
                 FALSE)
        ELSE S

(* ref: get value / set value *)
refGet(S) == [depend(S, "r") EXCEPT !.ret = S.refv]

(* set value without the isObj test *)
refSet_NoCheck(S, nv) ==
    IF ~ObjectIs(nv, S.refv) THEN notify([S EXCEPT !.refv = nv], "r") ELSE S

refSet(S, nv) ==
    IF isObj(nv) THEN Throw(S, "ref")
    ELSE IF ~ObjectIs(nv, S.refv) THEN notify([S EXCEPT !.refv = nv], "r")
    ELSE S

(* ref(val) *)
ref(S, v) ==
    IF isObj(v) THEN Throw(S, "ref") ELSE [S EXCEPT !.refv = v]

(* computed: value = effect.run(); dirty = false (skipped when the getter threw) *)
recompute(R) ==
    IF R.thrown THEN R ELSE [R EXCEPT !.cvalue = R.fnret, !.dirty = FALSE]

(* computed: dep.depend(); return value *)
readCached(S) ==
    IF S.thrown THEN S ELSE [depend(S, "cp") EXCEPT !.cret = S.cvalue]

(* get value that never clears dirty *)
computedGet_StaysDirty(S) ==
    readCached(IF S.dirty
               THEN [recompute(run(S, CpEffect)) EXCEPT !.dirty = TRUE]
               ELSE S)

(* computed: get value *)
computedGet(S) ==
    readCached(IF S.dirty THEN recompute(run(S, CpEffect)) ELSE S)

(* ReactiveEffect.stop *)
stop(S, e) ==
    IF S.effects[e].active THEN [cleanup(S, e) EXCEPT !.effects[e].active = FALSE]
    ELSE S

(* const stop = watchEffect(() => { if (c.b) stop(); ... }): the binding `stop` is *)
(* uninitialised until watchEffect has returned                                  *)
callStop(S, e) ==
    IF S.creating = e THEN Throw(S, "ReferenceError") ELSE stop(S, e)

(* The stop function a body closes over is that of its own effect *)
Bind(ops, e) ==
    [i \in 1..Len(ops) |->
        IF ops[i].op = "stopif" THEN [ops[i] EXCEPT !.v = <<"effect", e>>] ELSE ops[i]]

(* try { watchEffect(fn) } catch (e) {} in an effect body *)
tryCatch(S) == IF S.thrown THEN [S EXCEPT !.thrown = FALSE, !.err = "none"] ELSE S

(* One operation of an effect body *)
execOp(S, o) ==
    CASE o.op = "get"  -> proxyGet(S, o.k)
      [] o.op = "set"  -> proxySet(S, o.k, o.v)
      [] o.op = "getr" -> refGet(S)
      [] o.op = "getc" -> computedGet(S)
      [] o.op = "zif"  -> zifEffect(S)
      [] o.op = "zfor" -> zforEffect(S)
      [] o.op = "getiref" -> itemRefGet(S, o.v[2])
      [] o.op = "geti" -> arrayGet(S, o.v[2])
      [] o.op = "getlen" -> arrayLength(S)
      [] o.op = "foreach" -> arrayForEach(S)
      [] o.op = "getif" -> (IF S.ret \notin {Prim(0), Undefined} THEN proxyGet(S, o.k) ELSE S)
      [] o.op = "keys" -> ownKeys(S)
      [] o.op = "watch" -> watchEffect(S, o.k, "none")
      [] o.op = "trywatch" -> tryCatch(watchEffect(S, o.k, "none"))
      [] o.op = "throwif" -> (IF S.ret \notin {Prim(0), Undefined} THEN Throw(S, "effect") ELSE S)
      [] o.op = "stopif" -> (IF S.ret \notin {Prim(0), Undefined} THEN callStop(S, o.v[2]) ELSE S)
      [] OTHER         -> S

(* The body of effect e: its operations in order, stopping at a throw.     *)
(* It returns (fnret) the array of the values it read from c.              *)
ExecOps(S, ops, acc) ==
    IF ops = <<>> \/ S.thrown THEN [S EXCEPT !.fnret = acc]
    ELSE ExecRest(execOp(S, Head(ops)), ops, acc)

ExecRest(S, ops, acc) ==
    ExecOps(S, Tail(ops), IF Head(ops).op = "get" THEN Append(acc, S.ret) ELSE acc)

CallFn(S, e) ==
    ExecOps([S EXCEPT !.ran = Append(@, e),
                      !.getterCalls = IF e = CpEffect THEN @ + 1 ELSE @],
            Bind(Body(S.effects[e].fn), e), <<>>)

(* ReactiveEffect.run without this.cleanup() *)
beginRun_NoCleanup(S, e) ==
    IF ~S.effects[e].active THEN S
    ELSE [S EXCEPT !.effectStack = Append(@, e), !.activeEffect = e]

(* ReactiveEffect.run: cleanup(this); effectStack.push(this); activeEffect = this *)
beginRun(S, e) ==
    IF ~S.effects[e].active THEN S
    ELSE [cleanup(S, e) EXCEPT !.effectStack = Append(@, e), !.activeEffect = e]

(* ReactiveEffect.run with the pop after the call instead of in a finally block *)
endRun_NoFinally(S, wasActive) ==
    IF ~wasActive \/ S.thrown THEN S
    ELSE LET st == SubSeq(S.effectStack, 1, Len(S.effectStack) - 1)
         IN  [S EXCEPT !.effectStack = st,
                       !.activeEffect = IF st = <<>> THEN Null ELSE st[Len(st)]]

(* ReactiveEffect.run with finally { effectStack.pop(); activeEffect = null } *)
endRun_Null(S, wasActive) ==
    IF ~wasActive THEN S
    ELSE [S EXCEPT !.effectStack = SubSeq(@, 1, Len(@) - 1), !.activeEffect = Null]

(* ReactiveEffect.run: finally { effectStack.pop(); activeEffect = top of the stack } *)
endRun(S, wasActive) ==
    IF ~wasActive THEN S
    ELSE LET st == SubSeq(S.effectStack, 1, Len(S.effectStack) - 1)
         IN  [S EXCEPT !.effectStack = st,
                       !.activeEffect = IF st = <<>> THEN Null ELSE st[Len(st)]]

(* history: the call of fn in ReactiveEffect.run left by an exception *)
noteThrow(S, e) == IF S.thrown THEN [S EXCEPT !.threw = Append(@, e)] ELSE S

(* ReactiveEffect.run *)
run(S, e) == endRun(noteThrow(CallFn(beginRun(S, e), e), e), S.effects[e].active)

(* new ReactiveEffect(fn, scheduler) *)
newEffect(S, fn, scheduler) ==
    [S EXCEPT !.effects = @ @@ (S.effectId :> [fn |-> fn, scheduler |-> scheduler,
                                               deps |-> <<>>, active |-> TRUE]),
              !.effectId = @ + 1]

(* watchEffect(fn, opts) outside setup(): currentScope is null *)
watchEffect(S, fn, scheduler) ==
    [run([newEffect(S, fn, scheduler) EXCEPT !.creating = S.effectId], S.effectId)
        EXCEPT !.creating = S.creating]

(* watchEffect: const stop = () => effect.stop(); currentScope?.addEffect(stop);  *)
(* return stop -- the statements after effect.run(), not reached when it threw     *)
returnStop(W, s, e) ==
    IF W.thrown THEN [W EXCEPT !.ret = Undefined]
    ELSE [W EXCEPT !.scopes[s].effects = Append(@, e), !.ret = <<"effect", e>>]

(* watchEffect(fn) while currentScope is the Scope s *)
watchEffectIn(S, fn, s) == returnStop(watchEffect(S, fn, "none"), s, S.effectId)

-----------------------------------------------------------------------------
(* Scope *)
RootScope == 1
EmptyScope == [effects |-> <<>>, listeners |-> <<>>, children |-> <<>>]

(* new Scope(data): the new scope's id is Len(scopes) *)
newScope(S) == [S EXCEPT !.scopes = Append(@, EmptyScope)]

addEffect(S, s, e) == [S EXCEPT !.scopes[s].effects = Append(@, e)]
addChild(S, s, child) == [S EXCEPT !.scopes[s].children = Append(@, child)]
removeChild(S, s, child) == [S EXCEPT !.scopes[s].children = Remove(@, child)]

(* el.addEventListener(ev, fn); cs.addListener(el, ev, fn) *)
addListener(S, s) ==
    [S EXCEPT !.listenerId = @ + 1,
              !.attached = @ \cup {S.listenerId + 1},
              !.scopes[s].listeners = Append(@, S.listenerId + 1)]

RECURSIVE scopeCleanup(_, _), CleanupEach(_, _, _)

(* this.effects.forEach(stop => stop?.()) *)
RECURSIVE StopEach(_, _, _, _)
StopEach(S, s, entries, i) ==
    IF i > Len(entries) THEN S
    ELSE StopEach([stop(S, entries[i]) EXCEPT !.released = Append(@, <<"stop", entries[i], s>>)],
                  s, entries, i + 1)

(* this.listeners.forEach(({el, ev, fn}) => el.removeEventListener(ev, fn)) *)
RECURSIVE RemoveEach(_, _, _, _)
RemoveEach(S, s, entries, i) ==
    IF i > Len(entries) THEN S
    ELSE RemoveEach([S EXCEPT !.attached = @ \ {entries[i]},
                              !.released = Append(@, <<"remove", entries[i], s>>)],
                    s, entries, i + 1)

(* this.children.forEach(c => c.cleanup()) *)
CleanupEach(S, entries, i) ==
    IF i > Len(entries) THEN S
    ELSE CleanupEach(scopeCleanup(S, entries[i]), entries, i + 1)

(* Scope.cleanup, statement by statement *)
cleanupChildren(S, s) ==
    [CleanupEach(S, S.scopes[s].children, 1) EXCEPT !.scopes[s].children = <<>>]
stopEffects(S, s) == StopEach(S, s, S.scopes[s].effects, 1)
clearEffects(S, s) == [S EXCEPT !.scopes[s].effects = <<>>]
removeListeners(S, s) ==
    [RemoveEach(S, s, S.scopes[s].listeners, 1) EXCEPT !.scopes[s].listeners = <<>>]

(* Scope.cleanup without `this.effects.length = 0` *)
scopeCleanup_KeepsEffects(S, s) ==
    removeListeners(stopEffects(cleanupChildren(S, s), s), s)

(* Scope.cleanup without the recursion into the children *)
scopeCleanup_OwnOnly(S, s) ==
    removeListeners(clearEffects(stopEffects(S, s), s), s)

(* Scope.cleanup *)
scopeCleanup(S, s) ==
    removeListeners(clearEffects(stopEffects(cleanupChildren(S, s), s), s), s)

-----------------------------------------------------------------------------
(* compile: the template of a branch or of a list item is                  *)
(*   <p @click="h">{{ c.b }}</p>                                            *)
(* one listener (the attribute loop) and then one text effect (childNodes). *)
compileText(S, cs) == addEffect(watchEffect(S, "readB", "none"), cs, S.effectId)
compileTemplate(S, cs) == compileText(addListener(S, cs), cs)

(* the same template compiled in the Scope of a list item; itemRef is the Ref in *)
(* its data (Null for a reactive item)                                           *)
compileItem(S, cs, itemRef) ==
    IF itemRef = Null THEN compileTemplate(S, cs)
    ELSE addEffect(watchEffect(addListener(S, cs), ItemFn(itemRef), "none"), cs, S.effectId)

(* b.scope = new Scope(...); cs.addChild(b.scope); compile(b.el, b.scope.data, b.scope) *)
(* for a template <p>...</p> with or without @click and with or without {{ c.b }}       *)
compileChild(S, parent, hasListener, hasText) ==
    LET s  == Len(S.scopes) + 1
        S1 == addChild(newScope(S), parent, s)
        S2 == IF hasListener THEN addListener(S1, s) ELSE S1
    IN  IF hasText THEN compileText(S2, s) ELSE S2

(* JavaScript truthiness of a value of the model *)
Truthy(v) == v # Prim(0) /\ v # Undefined

NoBranch == 0

(* for (const b of branches) if (b.type === 'z-else' || evalExp(b.exp, scope)) ... *)
(* that keeps looking after a truthy branch: the last truthy branch is chosen       *)
RECURSIVE chooseBranch_Last(_, _), tested_Last(_, _)
tested_Last(S, i) ==
    chooseBranch_Last(IF Truthy(S.ret) THEN [S EXCEPT !.chosen = i] ELSE S, i + 1)
chooseBranch_Last(S, i) ==
    IF i > Len(S.branches) THEN S
    ELSE IF S.branches[i].type = "z-else"
         THEN chooseBranch_Last([S EXCEPT !.chosen = i], i + 1)
         ELSE tested_Last(proxyGet(S, S.branches[i].exp), i)

(* for (const b of branches) if (b.type === 'z-else' || evalExp(b.exp, scope)) *)
(*     { chosen = b; break; }                                                  *)
RECURSIVE chooseBranch(_, _), tested(_, _)
tested(S, i) ==
    IF Truthy(S.ret) THEN [S EXCEPT !.chosen = i] ELSE chooseBranch(S, i + 1)
chooseBranch(S, i) ==
    IF i > Len(S.branches) THEN S
    ELSE IF S.branches[i].type = "z-else" THEN [S EXCEPT !.chosen = i]
         ELSE tested(proxyGet(S, S.branches[i].exp), i)

Mounted(brs) == {i \in 1..Len(brs) : brs[i].el # Null}

(* parent.insertBefore(b.el, ph.nextSibling), and how many branches are mounted now *)
insertBranch(S, el) ==
    [S EXCEPT !.dom = <<el>> \o @,
              !.mountedPeak = IF Cardinality(Mounted(S.branches)) > @
                              THEN Cardinality(Mounted(S.branches)) ELSE @]

(* the chosen branch has no clone: clone, new Scope, addChild, insertBefore, compile *)
mountBranch(S, i) ==
    compileTemplate(
        insertBranch(
            addChild(newScope([S EXCEPT !.nodeId = S.nodeId + 1,
                                        !.branches[i].el = S.nodeId + 1,
                                        !.branches[i].scope = Len(S.scopes) + 1]),
                     RootScope, Len(S.scopes) + 1),
            S.nodeId + 1),
        Len(S.scopes) + 1)

(* another branch has a Scope: remove, cleanup, removeChild, forget *)
unmountBranch(S, i) ==
    [removeChild(scopeCleanup([S EXCEPT !.dom = Remove(@, S.branches[i].el)],
                              S.branches[i].scope),
                 RootScope, S.branches[i].scope)
        EXCEPT !.branches[i].scope = Null, !.branches[i].el = Null]

(* branches.forEach(b => ...) that mounts the chosen branch anew on every run *)
RECURSIVE forEachBranch_Remounts(_, _)
forEachBranch_Remounts(S, i) ==
    IF i > Len(S.branches) THEN S
    ELSE forEachBranch_Remounts(
             IF i = S.chosen
             THEN mountBranch(IF S.branches[i].el = Null THEN S ELSE unmountBranch(S, i), i)
             ELSE (IF S.branches[i].scope # Null THEN unmountBranch(S, i) ELSE S),
             i + 1)

(* branches.forEach(b => ...) *)
RECURSIVE forEachBranch(_, _)
forEachBranch(S, i) ==
    IF i > Len(S.branches) THEN S
    ELSE forEachBranch(
             IF i = S.chosen
             THEN (IF S.branches[i].el = Null THEN mountBranch(S, i) ELSE S)
             ELSE (IF S.branches[i].scope # Null THEN unmountBranch(S, i) ELSE S),
             i + 1)

(* the effect of a z-if group *)
zifEffect(S) == forEachBranch(chooseBranch([S EXCEPT !.chosen = NoBranch], 1), 1)

(* compile of an element with z-if: collect the branches, create the effect *)
compileIf(S, chain) ==
    addEffect(watchEffect([S EXCEPT !.branches =
                              [i \in 1..Len(chain) |->
                                 [type |-> chain[i].type, exp |-> chain[i].exp,
                                  el |-> Null, scope |-> Null]]],
                          "zif", "none"),
              RootScope, S.effectId)

-----------------------------------------------------------------------------
(* z-for.  The array is replaced as a whole (c.list = [...]); its items are *)
(* raw objects with an id property, or primitives.                          *)
ItemId(t) == IF t = OtherTarget THEN 2 ELSE 1
rawOf(S, v) == IF v[1] = "raw" THEN v[2] ELSE S.proxies[v[2]]

(* Proxy set trap of c for the key list: the assigned array is a new object *)
proxySetList(S, arr) == notify([S EXCEPT !.list = arr], "c.list")

(* '_' + (keyAttr ? evalExp(keyAttr, {...scope, item: v, index: i}) : i) *)
keyOf(S, v, i) ==
    IF S.keyAttr = "item.id"
    THEN (IF isObj(v) THEN Prim(ItemId(rawOf(S, v))) ELSE Undefined)
    ELSE Prim(i - 1)

(* Map: get, has, set (a key that is present keeps its place) *)
MapHas(m, key) == \E j \in 1..Len(m) : m[j].key = key
MapGet(m, key) == m[CHOOSE j \in 1..Len(m) : m[j].key = key]
MapSet(m, item) ==
    IF MapHas(m, item.key)
    THEN [j \in 1..Len(m) |-> IF m[j].key = item.key THEN item ELSE m[j]]
    ELSE Append(m, item)

(* create new item: clone, ref for a primitive, new Scope, addChild, compile, record *)
createItem(S, key, v, isReactiveObj) ==
    LET clone   == S.nodeId + 1
        itemRef == IF isReactiveObj THEN Null ELSE Len(S.irefs) + 1
        s       == Len(S.scopes) + 1
    IN  [compileItem(
             addChild(newScope([S EXCEPT !.nodeId = clone,
                                         !.irefs = IF isReactiveObj THEN @
                                                   ELSE Append(@, v)]),
                      RootScope, s),
             s, itemRef)
            EXCEPT !.newItemsMap =
                MapSet(@, [key |-> key, clone |-> clone, scope |-> s,
                           itemValue |-> IF isReactiveObj THEN v ELSE <<"ref", itemRef>>,
                           itemRef |-> itemRef])]

(* reference changed: remove the clone, clean the Scope up, detach it *)
dropItem(S, item) ==
    removeChild(scopeCleanup([S EXCEPT !.dom = Remove(@, item.clone)], item.scope),
                RootScope, item.scope)

(* update existing item: existing.itemRef.value = val for a primitive; record it *)
recordItem(S, existing) == [S EXCEPT !.newItemsMap = MapSet(@, existing)]

updateItem(S, existing, v, isReactiveObj) ==
    IF ~isReactiveObj /\ existing.itemRef = Null THEN Throw(S, "TypeError")
    ELSE recordItem(IF isReactiveObj THEN S ELSE itemRefSet(S, existing.itemRef, v),
                    existing)

(* const val = isObj(v) && !v[IS_REACTIVE] ? reactive(v) : v *)
toReactive(S, v) ==
    IF isObj(v) /\ ~IsReactive(v) THEN reactive(S, v) ELSE [S EXCEPT !.ret = v]

(* the rest of the callback that rebuilds every item whose key is known *)
withItem_Rebuilds(S, key) ==
    createItem(IF MapHas(S.itemsMap, key) THEN dropItem(S, MapGet(S.itemsMap, key)) ELSE S,
               key, S.ret, IsReactive(S.ret))

(* the callback of arr.forEach that rebuilds every item whose key is known *)
forItem_Rebuilds(S, v, i) ==
    withItem_Rebuilds(toReactive([S EXCEPT !.newKeys = Append(@, keyOf(S, v, i))], v),
                      keyOf(S, v, i))

(* the rest of the callback, once val (S.ret) is known *)
withItem(S, key) ==
    LET isReactiveObj == IsReactive(S.ret)
        known   == MapHas(S.itemsMap, key)
        rebuild == known /\ isReactiveObj /\ MapGet(S.itemsMap, key).itemValue # S.ret
    IN  IF known /\ ~rebuild
        THEN updateItem(S, MapGet(S.itemsMap, key), S.ret, isReactiveObj)
        ELSE createItem(IF rebuild THEN dropItem(S, MapGet(S.itemsMap, key)) ELSE S,
                        key, S.ret, isReactiveObj)

(* the callback of arr.forEach *)
forItem(S, v, i) ==
    withItem(toReactive([S EXCEPT !.newKeys = Append(@, keyOf(S, v, i))], v),
             keyOf(S, v, i))

RECURSIVE forEachItem(_, _, _)
forEachItem(S, arr, i) ==
    IF i > Len(arr) \/ S.thrown THEN S
    ELSE forEachItem(forItem(S, arr[i], i), arr, i + 1)

(* remove old items *)
RECURSIVE removeOld(_, _, _)
removeOld(S, old, j) ==
    IF j > Len(old) THEN S
    ELSE removeOld(IF ~MapHas(S.newItemsMap, old[j].key) THEN dropItem(S, old[j]) ELSE S,
                   old, j + 1)

(* DOM: the sibling before / after a node among the clones (Null: the placeholder, none) *)
IndexOf(d, n) == IF InSeq(n, d) THEN CHOOSE j \in 1..Len(d) : d[j] = n ELSE 0
previousSibling(d, n) ==
    IF IndexOf(d, n) = 0 THEN -2 ELSE IF IndexOf(d, n) = 1 THEN Null ELSE d[IndexOf(d, n) - 1]
insertAfter(d, n, prevNode) ==
    LET rest == Remove(d, n)
        at   == IF prevNode = Null THEN 0
                ELSE IF prevNode = n THEN IndexOf(d, n) - 1
                ELSE IndexOf(rest, prevNode)
    IN  SubSeq(rest, 1, at) \o <<n>> \o SubSeq(rest, at + 1, Len(rest))

(* reorder DOM nodes *)
RECURSIVE reorder(_, _, _, _)
reorder(S, keys, j, prevNode) ==
    IF j > Len(keys) THEN S
    ELSE reorder(IF previousSibling(S.dom, MapGet(S.newItemsMap, keys[j]).clone) # prevNode
                 THEN [S EXCEPT !.dom = insertAfter(@, MapGet(S.newItemsMap, keys[j]).clone,
                                                    prevNode)]
                 ELSE S,
                 keys, j + 1, MapGet(S.newItemsMap, keys[j]).clone)

(* the effect after arr.forEach: remove old items, reorder, itemsMap = newItemsMap *)
finishList(S) ==
    IF S.thrown THEN S
    ELSE [reorder(removeOld(S, S.itemsMap, 1), S.newKeys, 1, Null)
             EXCEPT !.itemsMap = S.newItemsMap]

(* the effect of a z-for element *)
zforEffect(S) ==
    finishList(forEachItem([proxyGetList(S) EXCEPT !.newItemsMap = <<>>, !.newKeys = <<>>],
                           S.list, 1))

(* compile of an element with z-for *)
compileFor(S, key) ==
    addEffect(watchEffect([S EXCEPT !.keyAttr = key, !.itemsMap = <<>>], "zfor", "none"),
              RootScope, S.effectId)

-----------------------------------------------------------------------------
(* createApp.  RootScope is the Scope mount() constructs; the application mounts once. *)

(* rootScope.data = setup(): setup calls watchEffect(() => c.a) while currentScope *)
(* is the root Scope                                                               *)
setup(S) == addEffect(watchEffect(S, "readA", "none"), RootScope, S.effectId)

(* compile(el, rootScope.data, rootScope) for a root holding one z-if group or one z-for *)
compileRoot(S, tpl) ==
    IF tpl.kind = "if" THEN compileIf(S, tpl.chain) ELSE compileFor(S, tpl.key)

(* app.mount(root) *)
mount(S, tpl) == compileRoot(setup(S), tpl)

(* app.unmount(): rootScope?.cleanup(); rootScope = null *)
unmount(S) == scopeCleanup(S, RootScope)

-----------------------------------------------------------------------------
(* Array.prototype.sort((a, b) => a.id - b.id) on a copy of the queue *)
RECURSIVE SortById(_)
SortById(q) ==
    IF q = <<>> THEN <<>>
    ELSE LET m == CHOOSE x \in Range(q) : \A y \in Range(q) : x <= y
             i == CHOOSE j \in 1..Len(q) : q[j] = m /\ \A h \in 1..(j - 1) : q[h] # m
         IN  <<m>> \o SortById(SubSeq(q, 1, i - 1) \o SubSeq(q, i + 1, Len(q)))

(* try { e.run() } catch (err) { console.error(...) } *)
caught(S) == IF S.thrown THEN [S EXCEPT !.thrown = FALSE] ELSE S

(* the loop of flushEffects without the test of e.active *)
RECURSIVE FlushLoop_RunsStopped(_, _, _)
FlushLoop_RunsStopped(S, queue, i) ==
    IF i > Len(queue) THEN S
    ELSE FlushLoop_RunsStopped(caught(run(S, queue[i])), queue, i + 1)

RECURSIVE FlushLoop(_, _, _)
FlushLoop(S, queue, i) ==
    IF i > Len(queue) THEN S
    ELSE FlushLoop(IF S.effects[queue[i]].active THEN caught(run(S, queue[i])) ELSE S,
                   queue, i + 1)

(* flushEffects without the sort by id *)
flushEffects_Unsorted(S) ==
    FlushLoop([S EXCEPT !.effectQueue = <<>>, !.isFlushing = FALSE, !.writes = {},
                        !.flushed = S.effectQueue],
              S.effectQueue, 1)

(* flushEffects without isFlushing = false *)
flushEffects_KeepsFlag(S) ==
    FlushLoop([S EXCEPT !.effectQueue = <<>>, !.writes = {},
                        !.flushed = S.effectQueue],
              SortById(S.effectQueue), 1)

(* flushEffects with effectQueue.length = 0 after the loop instead of before it *)
flushEffects_ClearsLast(S) ==
    [FlushLoop([S EXCEPT !.isFlushing = FALSE, !.writes = {}, !.flushed = S.effectQueue],
               SortById(S.effectQueue), 1)
        EXCEPT !.effectQueue = <<>>]

flushEffects(S) ==
    FlushLoop([S EXCEPT !.effectQueue = <<>>, !.isFlushing = FALSE, !.writes = {},
                        !.flushed = S.effectQueue],
              SortById(S.effectQueue), 1)

-----------------------------------------------------------------------------
(* Actions: what the application and the microtask queue do *)

(* State after: const c = reactive({a: 0, b: 0, list: []});                 *)
(* const cp = computed(() => [c.a, c.b]); rootScope = new Scope({})         *)
Init ==
    /\ val = [k \in Keys |-> Prim(0)]
    /\ refv = NoRef
    /\ effects = [i \in {CpEffect} |->
                    [fn |-> "getter", scheduler |-> "computed", deps |-> <<>>, active |-> TRUE]]
    /\ effectId = 1
    /\ subs = [d \in Deps |-> <<>>]
    /\ effectQueue = <<>>
    /\ isFlushing = FALSE
    /\ pendingFlush = 0
    /\ activeEffect = Null
    /\ effectStack = <<>>
    /\ cvalue = <<>>
    /\ dirty = TRUE
    /\ proxies = <<RootTarget>>
    /\ reactiveMap = [t \in Targets |-> IF t = RootTarget THEN 1 ELSE NoProxy]
    /\ scopes = <<[effects |-> <<>>, listeners |-> <<>>, children |-> <<>>]>>
    /\ attached = {}
    /\ listenerId = 0
    /\ released = <<>>
    /\ list = <<>>
    /\ branches = <<>>
    /\ itemsMap = <<>>
    /\ keyAttr = ""
    /\ irefs = <<>>
    /\ dom = <<>>
    /\ nodeId = 0
    /\ mountedPeak = 0
    /\ ran = <<>>
    /\ notified = <<>>
    /\ err = "none"
    /\ ret = Undefined
    /\ cret = <<>>
    /\ getterCalls = 0
    /\ writes = {}
    /\ flushed = <<>>
    /\ threw = <<>>

(* Values the application may hold and assign to c.k *)
Assignable(k) ==
    IF k = "a"
    THEN Prims \cup {Raw(NestedTarget)}
               \cup {Proxy(p) : p \in {q \in 1..Len(proxies) : proxies[q] = NestedTarget}}
    ELSE Prims

WatchEffect(fn, scheduler) ==
    /\ effectId <= MaxEffects
    /\ fn = "readR" => refv # NoRef
    /\ \E R \in {watchEffect(Cur, fn, scheduler)} :
          Commit(NoReturn(R))

Set(k, v) == \E R \in {proxySet(Cur, k, v)} : Commit(NoReturn(R))

Get(k) == \E R \in {proxyGet(Cur, k)} : Commit(R)

CallReactive(x) ==
    /\ Len(proxies) < MaxProxies
    /\ \E R \in {reactive(Cur, x)} : Commit(R)

Ref(v) ==
    /\ refv = NoRef
    /\ \E R \in {ref(Cur, v)} : Commit(NoReturn(R))

RefSet(nv) ==
    /\ refv # NoRef
    /\ \E R \in {refSet(Cur, nv)} : Commit(NoReturn(R))

ComputedRead == \E R \in {computedGet(Cur)} : Commit(R)

Stop(e) ==
    /\ e < effectId
    /\ \E R \in {stop(Cur, e)} : Commit(NoReturn(R))

Flush ==
    /\ pendingFlush > 0
    /\ \E R \in {flushEffects(Cur)} :
          Commit(NoReturn([R EXCEPT !.pendingFlush = @ - 1]))

(* Tracking and batching: effects over c.a and c.b, with and without a scheduler *)
Next ==
    \/ \E fn \in {"readA", "readAB"}, s \in Schedulers : WatchEffect(fn, s)
    \/ \E k \in Keys : \E v \in Assignable(k) : Set(k, v)
    \/ \E e \in 1..MaxEffects : Stop(e)
    \/ Flush

Spec == Init /\ [][Next]_vars

(* computed: effects that read cp, writes to the getter's dependencies, reads of cp.value *)
NextComputed ==
    \/ \E fn \in {"readCp", "cpSetA"} : WatchEffect(fn, "none")
    \/ \E k \in Keys : \E v \in Prims : Set(k, v)
    \/ ComputedRead
    \/ Flush

SpecComputed == Init /\ [][NextComputed]_vars

(* ref: construction, assignment, effects that read r.value *)
RefInputs == Prims \cup {Raw(NestedTarget)} \cup {Proxy(p) : p \in 1..Len(proxies)}

NextRef ==
    \/ \E s \in Schedulers : WatchEffect("readR", s)
    \/ \E v \in RefInputs : Ref(v)
    \/ \E nv \in RefInputs : RefSet(nv)
    \/ \E e \in 1..MaxEffects : Stop(e)
    \/ Flush

SpecRef == Init /\ [][NextRef]_vars

(* reactive(): calls on raw targets, proxies and primitives, and nested reads through c *)
NextReactive ==
    \/ \E x \in {Raw(t) : t \in Targets} \cup {Proxy(p) : p \in 1..Len(proxies)} \cup Prims :
          CallReactive(x)
    \/ \E k \in Keys : Get(k)
    \/ \E k \in Keys : \E v \in {Prim(0), Raw(NestedTarget), Raw(OtherTarget)}
                                    \cup {Proxy(p) : p \in 2..Len(proxies)} : Set(k, v)

SpecReactive == Init /\ [][NextReactive]_vars

(* Scope: what compile() and unmount() do with scopes *)

(* a child element with a Scope of its own is compiled under the scope parent *)
NewChild(parent, hasListener, hasText) ==
    /\ Len(scopes) < MaxScopes
    /\ hasText => effectId <= MaxScopeEffects
    /\ hasListener => listenerId < MaxListeners
    /\ \E R \in {compileChild(Cur, parent, hasListener, hasText)} : Commit(NoReturn(R))

(* cs.addEffect(watchEffect(fn)) *)
AddEffect(s, fn) ==
    /\ effectId <= MaxScopeEffects
    /\ \E W \in {watchEffect(Cur, fn, "none")} :
          Commit(NoReturn(addEffect(W, s, effectId)))

(* el.addEventListener(ev, fn); cs.addListener(el, ev, fn) *)
AddListener(s) ==
    /\ listenerId < MaxListeners
    /\ \E R \in {addListener(Cur, s)} : Commit(NoReturn(R))

Cleanup(s) == \E R \in {scopeCleanup(Cur, s)} : Commit(NoReturn(R))

(* The root's own effects and listeners; child scopes, filled when they are compiled; *)
(* cleanup of any scope                                                               *)
NextScope ==
    \/ \E p \in 1..Len(scopes) : \E hasListener, hasText \in BOOLEAN :
          NewChild(p, hasListener, hasText)
    \/ AddEffect(RootScope, "readA")
    \/ AddListener(RootScope)
    \/ \E s \in 1..Len(scopes) : Cleanup(s)

SpecScope == Init /\ [][NextScope]_vars

(* Conditional groups: mount(root) compiles one z-if group under the root *)
IfBranch(e) == [type |-> "z-if", exp |-> e]
ElseIfBranch(e) == [type |-> "z-else-if", exp |-> e]
ElseBranch == [type |-> "z-else", exp |-> ""]
Chains == { <<IfBranch("a")>>,
            <<IfBranch("a"), ElseBranch>>,
            <<IfBranch("a"), ElseIfBranch("b")>>,
            <<IfBranch("a"), ElseIfBranch("b"), ElseBranch>> }

MountIf(chain) ==
    /\ effectId = 1
    /\ \E R \in {compileIf(Cur, chain)} : Commit(NoReturn(R))

NextIf ==
    \/ \E chain \in Chains : MountIf(chain)
    \/ nodeId < MaxMounts /\ \E k \in Keys : \E v \in Prims : Set(k, v)
    \/ Flush

SpecIf == Init /\ [][NextIf]_vars

(* Lists: mount(root) compiles one z-for element under the root; the application *)
(* assigns arrays to c.list                                                       *)
Items == {Raw(NestedTarget), Raw(OtherTarget), Raw(TwinTarget), Prim(0)}
Lists == UNION {[1..n -> Items] : n \in 0..MaxLen}

MountFor(key) ==
    /\ effectId = 1
    /\ \E R \in {compileFor(Cur, key)} : Commit(NoReturn(R))

(* c.list = arr, once per tick (a second assignment before the flush would only *)
(* replace the stored array: the list effect is queued already)                  *)
SetList(arr) ==
    /\ pendingFlush = 0
    /\ nodeId + Len(arr) <= MaxClones
    /\ \E R \in {proxySetList(Cur, arr)} : Commit(NoReturn(R))

NextFor ==
    \/ \E key \in {"item.id", ""} : MountFor(key)
    \/ \E arr \in Lists : SetList(arr)
    \/ Flush

SpecFor == Init /\ [][NextFor]_vars

(* The flush: effects that read, write and throw, none with a scheduler *)
NextFlush ==
    \/ \E fn \in {"readA", "readBSetA", "throwA"} : WatchEffect(fn, "none")
    \/ \E k \in Keys : \E v \in Prims : Set(k, v)
    \/ \E e \in 1..MaxEffects : Stop(e)
    \/ Flush

SpecFlush == Init /\ [][NextFlush]_vars

(* A scheduled microtask runs: the flush is never postponed forever.  The flush is *)
(* named by what it shows: it needs a scheduled microtask, and it leaves in        *)
(* `flushed` the queue it found.  Its enabling condition is then a test of         *)
(* pendingFlush and effectQueue instead of an evaluation of flushEffects.          *)
FlushStep == pendingFlush > 0 /\ flushed' = effectQueue
FlushFairness == WF_flushed(FlushStep)
SpecFlushFair == Init /\ [][NextFlush]_vars /\ FlushFairness

(* what the fairness condition rests on: the steps so named are the flushes *)
FlushStepsAreFlushes == [][Flush <=> FlushStep]_vars

(* stop(): called by the application, and by an effect on itself while it runs *)
NextStop ==
    \/ \E fn \in {"readA", "stopSelf"}, s \in Schedulers : WatchEffect(fn, s)
    \/ \E k \in Keys : \E v \in Prims : Set(k, v)
    \/ \E e \in 1..MaxEffects : Stop(e)
    \/ Flush

SpecStop == Init /\ [][NextStop]_vars

(* Arrays: effects that read c.list by index, by length and by iteration; *)
(* the application calls the mutators on c.list                           *)
MaxArrayEffects == 2
ArrayMethods == {"push", "pop", "shift", "unshift", "splice", "sort", "reverse",
                 "fill", "copyWithin"}
NoArgs == [v |-> Undefined, start |-> 0, count |-> 0, items |-> <<>>, target |-> 0]

(* The argument lists tried for a method on an array of length n *)
ArgsOf(method, n) ==
    CASE method \in {"push", "unshift", "fill"} -> {[NoArgs EXCEPT !.v = v] : v \in Prims}
      [] method = "splice" ->
            {[NoArgs EXCEPT !.start = st, !.count = ct, !.items = it] :
                 st \in 0..n, ct \in 0..1, it \in {<<>>, <<Prim(1)>>}}
      [] method = "copyWithin" ->
            {[NoArgs EXCEPT !.target = t, !.start = st] : t \in 0..1, st \in 0..1}
      [] OTHER -> {NoArgs}

ArrayWatch(fn) ==
    /\ effectId <= MaxArrayEffects
    /\ \E R \in {watchEffect(Cur, fn, "none")} : Commit(NoReturn(R))

Mutate(method, x) ==
    /\ Len(ArrayPrototype(method, list, x)) <= MaxLen
    /\ method = "splice" => x.start + x.count <= Len(list)
    /\ \E R \in {arrayMutator(Cur, method, x)} : Commit(NoReturn(R))

NextArray ==
    \/ \E fn \in {"readI0", "readI1", "readLen", "iterate"} : ArrayWatch(fn)
    \/ \E method \in ArrayMethods : \E x \in ArgsOf(method, Len(list)) : Mutate(method, x)
    \/ Flush

SpecArray == Init /\ [][NextArray]_vars

(* delete c.k *)
Delete(k) == \E R \in {proxyDelete(Cur, k)} : Commit(NoReturn(R))

(* Writes of every kind against effects with and without a scheduler *)
NextDefer ==
    \/ \E fn \in {"readA", "readLen"}, s \in Schedulers : WatchEffect(fn, s)
    \/ WatchEffect("readBSetA", "sync")
    \/ \E k \in Keys : \E v \in Prims : Set(k, v)
    \/ \E k \in Keys : Delete(k)
    \/ \E method \in {"push", "pop", "reverse"} : Mutate(method, [NoArgs EXCEPT !.v = Prim(1)])
    \/ Flush

SpecDefer == Init /\ [][NextDefer]_vars

(* The application: mount of a template, writes, unmount *)
Templates ==
    {[kind |-> "if", chain |-> ch, key |-> ""] : ch \in Chains}
        \cup {[kind |-> "for", chain |-> <<>>, key |-> k] : k \in {"item.id", ""}}

Mount(tpl) ==
    /\ effectId = 1
    /\ \E R \in {mount(Cur, tpl)} : Commit(NoReturn(R))

Unmount == \E R \in {unmount(Cur)} : Commit(NoReturn(R))

(* the application writes the state its template reads: c.a and c.b for a *)
(* conditional group, c.list for a list                                   *)
NextApp ==
    \/ \E tpl \in Templates : Mount(tpl)
    \/ branches # <<>> /\ nodeId < MaxMounts /\ \E k \in Keys : \E v \in Prims : Set(k, v)
    \/ branches = <<>> /\ effectId > 1 /\ \E arr \in Lists : SetList(arr)
    \/ Unmount
    \/ Flush

SpecApp == Init /\ [][NextApp]_vars

(* Lists of primitives and objects: values change under a key that stays *)
RefItems == {Prim(0), Prim(1), Raw(NestedTarget)}
RefLists == UNION {[1..n -> RefItems] : n \in 0..MaxLen}

NextForRef ==
    \/ \E key \in {"item.id", ""} : MountFor(key)
    \/ \E arr \in RefLists : SetList(arr)
    \/ Flush

SpecForRef == Init /\ [][NextForRef]_vars

(* Effects whose reads depend on what they read: () => { if (c.a) c.b } *)
NextRecollect ==
    \/ \E fn \in {"readBIfA", "readB"}, s \in Schedulers : WatchEffect(fn, s)
    \/ \E k \in Keys : \E v \in Prims : Set(k, v)
    \/ \E e \in 1..MaxEffects : Stop(e)
    \/ Flush

(* c.list[i] = v and c.list.length = n *)
SetIndex(i, v) ==
    /\ i <= Len(list) /\ i < MaxLen
    /\ \E R \in {arraySet(Cur, i, v)} : Commit(NoReturn(R))

SetLength(n) ==
    /\ n <= Len(list)
    /\ \E R \in {arraySetLength(Cur, n)} : Commit(NoReturn(R))

(* The length of c.list changed by mutators, by writes to length and by writes to *)
(* indices, against effects that read c.list.length and c.list[0]                 *)
NextLength ==
    \/ \E fn \in {"readLen", "readI0"} : ArrayWatch(fn)
    \/ \E method \in {"push", "pop", "shift", "unshift"} :
          Mutate(method, [NoArgs EXCEPT !.v = Prim(1)])
    \/ \E i \in 0..MaxLen : \E v \in Prims : SetIndex(i, v)
    \/ \E n \in 0..MaxLen : SetLength(n)
    \/ Flush

SpecLengthFair == Init /\ [][NextLength]_vars /\ FlushFairness

(* c.list = arr, also while a flush is scheduled *)
WriteList(arr) ==
    /\ nodeId + Len(arr) <= MaxClones
    /\ \E R \in {proxySetList(Cur, arr)} : Commit(NoReturn(R))

(* the lists written: an item with a text effect over c.b, items with a Ref *)
OwnedLists == {<<>>, <<Raw(NestedTarget)>>, <<Prim(0)>>, <<Prim(1), Raw(NestedTarget)>>}

(* A mounted conditional group or list whose text effects read c.b: writes to c.a, *)
(* c.b and c.list within one tick, so that the group or list effect and the text   *)
(* effects of its branches and items are pending together                          *)
NextOwned ==
    \/ \E tpl \in Templates : Mount(tpl)
    \/ effectId > 1 /\ (branches # <<>> => nodeId < MaxMounts)
          /\ \E k \in Keys : \E v \in Prims : Set(k, v)
    \/ branches = <<>> /\ effectId > 1 /\ \E arr \in OwnedLists : WriteList(arr)
    \/ Flush

SpecOwned == Init /\ [][NextOwned]_vars

(* setup() calls watchEffect(fn): the root Scope is the current one *)
SetupWatch(fn) ==
    /\ effectId <= MaxEffects
    /\ \E R \in {watchEffectIn(Cur, fn, RootScope)} : Commit(R)

(* Effects created in the root Scope, one body throwing when c.a is truthy; the *)
(* application stops effects through the Scope that holds their stop functions   *)
NextThrow ==
    \/ \E fn \in {"throwA", "readA"} : SetupWatch(fn)
    \/ \E k \in Keys : \E v \in Prims : Set(k, v)
    \/ Cleanup(RootScope)
    \/ Flush

SpecThrow == Init /\ [][NextThrow]_vars

(* Keys of c deleted and created again, against effects that read c.a and effects *)
(* that enumerate c: () => Object.keys(c)                                          *)
NextDelete ==
    \/ \E fn \in {"readA", "enumerate"}, s \in Schedulers : WatchEffect(fn, s)
    \/ \E k \in Keys : \E v \in Prims : Set(k, v)
    \/ \E k \in Keys : Delete(k)
    \/ Flush

SpecDelete == Init /\ [][NextDelete]_vars

SpecDeleteFair == Init /\ [][NextDelete]_vars /\ FlushFairness

(* Nested effects: one effect whose body creates another,                       *)
(*   () => { watchEffect(() => c.a); c.b }                                       *)
(*   () => { try { watchEffect(() => { if (c.a) throw ... }) } catch {} c.b }    *)
(* Every run of the outer body creates one more inner effect.                    *)
MaxNested == 4

NextNested ==
    \/ effectId = 1 /\ \E fn \in {"nest", "nestCatch"} : WatchEffect(fn, "none")
    \/ \E k \in Keys : \E v \in Prims : Set(k, v)
    \/ effectId <= MaxNested /\ Flush

SpecNested == Init /\ [][NextNested]_vars

SpecRecollect == Init /\ [][NextRecollect]_vars

(* Effects that write the slot they read: () => { c.a; c.a = 1 } *)
NextReentrant ==
    \/ \E fn \in {"readASetA", "readA"}, s \in Schedulers : WatchEffect(fn, s)
    \/ \E k \in Keys : \E v \in Prims : Set(k, v)
    \/ Flush

SpecReentrant == Init /\ [][NextReentrant]_vars

-----------------------------------------------------------------------------
(* Claims *)

UserEffects == 1..(effectId - 1)            \* the effects watchEffect created
Plain(e) == effects[e].scheduler = "none"   \* created without opts.scheduler
Subscribed(e, d) == InSeq(d, effects[e].deps)

(* The value the application finds in c.k: what the get trap returns for the stored value *)
Held(k) ==
    IF val[k][1] = "raw" /\ reactiveMap[val[k][2]] # NoProxy
    THEN Proxy(reactiveMap[val[k][2]])
    ELSE val[k]

(* A flush runs every effect that is pending and active exactly once, and no other plain effect *)
FlushRunsPendingOnce(E) ==
    Flush => \A e \in E :
               Count(e, ran') = IF InSeq(e, effectQueue) /\ effects[e].active THEN 1 ELSE 0

(* C1: for an effect e without a custom scheduler that read c.k in its last run (so is *)
(* subscribed to that key's Dep): assigning c.k a value distinct from the one it holds *)
(* leaves e pending exactly once with a flush scheduled, and that flush runs e exactly *)
(* once; assigning c.k the value it already holds neither notifies nor runs e.         *)
C1_Tracking ==
    [][ /\ \A k \in Keys : \A v \in Assignable(k) : Set(k, v) =>
              \A e \in UserEffects : (Plain(e) /\ Subscribed(e, KeyDep(k))) =>
                  IF v # Held(k) /\ v # val[k]
                  THEN Count(e, effectQueue') = 1 /\ pendingFlush' = 1 /\ ~InSeq(e, ran')
                  ELSE ~InSeq(e, notified') /\ ~InSeq(e, ran') /\ effectQueue' = effectQueue
        /\ FlushRunsPendingOnce({e \in UserEffects : Plain(e)}) ]_vars

(* C1 restricted to primitive values held and assigned: the statement the code satisfies *)
C1_TrackingPrimitives ==
    [][ /\ \A k \in Keys : \A v \in Prims : (Set(k, v) /\ val[k] \in Prims) =>
              \A e \in UserEffects : (Plain(e) /\ Subscribed(e, KeyDep(k))) =>
                  IF v # val[k]
                  THEN Count(e, effectQueue') = 1 /\ pendingFlush' = 1 /\ ~InSeq(e, ran')
                  ELSE ~InSeq(e, notified') /\ ~InSeq(e, ran') /\ effectQueue' = effectQueue
        /\ FlushRunsPendingOnce({e \in UserEffects : Plain(e)}) ]_vars

(* What every step c.k = v shows, tested before the action itself: no flush, no new *)
(* effect, and v stored under k unless a body ran inside the write                   *)
MaySet(k, v) == flushed' = <<>> /\ effectId' = effectId /\ (ran' = <<>> => val'[k] = v)

(* Batching as the claim states it, over a set E of effects: a write to c never runs an *)
(* effect of E itself, a value-changing write to a slot e depends on leaves e pending,  *)
(* the queue never holds e twice, and the flush runs each pending e exactly once.       *)
Batching(E) ==
    /\ \A k \in Keys : \A v \in Assignable(k) : (MaySet(k, v) /\ Set(k, v)) =>
          \A e \in E : /\ ~InSeq(e, ran')
                       /\ (Subscribed(e, KeyDep(k)) /\ v # val[k]) => InSeq(e, effectQueue')
                       /\ Count(e, effectQueue') <= 1
    /\ FlushRunsPendingOnce(E)

(* C2 as stated: every effect that depends on the written slots, whatever its scheduler *)
C2_BatchingAnyEffect == [][Batching(UserEffects)]_vars

(* C2 amended: any number of value-changing writes to slots an effect without a custom *)
(* scheduler depends on, made in one synchronous block, re-run it exactly once, in the  *)
(* next flush.                                                                          *)
C2_Batching == [][Batching({e \in UserEffects : Plain(e)})]_vars

(* Both slots of a plain effect that reads c.a and c.b were changed in this block and *)
(* the effect is pending once.                                                         *)
C2_Witness ==
    \E e \in UserEffects :
        /\ Plain(e) /\ effects[e].fn = "readAB" /\ effects[e].active
        /\ writes = {"a", "b"}
        /\ Count(e, effectQueue) = 1 /\ pendingFlush = 1

(* The getter's result on the current state: the values of c.a and c.b as read through c *)
GetterNow == <<Held("a"), Held("b")>>
CpTracks(k) == InSeq(KeyDep(k), effects[CpEffect].deps)

(* C3: between two changes of a slot the computed tracks, and from creation to the first *)
(* such change, the getter is invoked at most once, however often cp.value is read.      *)
C3_Memoization == getterCalls <= 1

(* The last action was a read of cp.value that returned the cached value without *)
(* invoking the getter.                                                            *)
C3_Witness ==
    /\ ~dirty /\ getterCalls = 1 /\ cvalue # <<>>
    /\ cret = cvalue /\ ran = <<>>

(* C4: after a write changes a slot the computed tracks, every effect that read cp.value *)
(* in its last run is pending for the next flush; a cache marked clean equals the        *)
(* getter's result on the current state, and so does every value a read returns.         *)
C4_Freshness ==
    [][ /\ \A k \in Keys : \A v \in Prims : (Set(k, v) /\ v # val[k] /\ CpTracks(k)) =>
              \A e \in UserEffects :
                  (Plain(e) /\ Subscribed(e, "cp")) => InSeq(e, effectQueue') /\ pendingFlush' = 1
        /\ ~dirty' => cvalue' = GetterNow'
        /\ ComputedRead => cret' = GetterNow' ]_vars

(* The part of C4 about the cache and the values read, which the code satisfies *)
C4_CacheFresh ==
    [][ /\ ~dirty' => cvalue' = GetterNow'
        /\ ComputedRead => cret' = GetterNow' ]_vars

(* C5: every raw target has at most one Proxy; reactive(x) on a container returns the *)
(* Proxy recorded for x's target, reactive(proxy) returns that proxy, and a nested    *)
(* read through c returns the same Proxy that reactive() gives for the stored object. *)
TargetOf(x) == IF x[1] = "raw" THEN x[2] ELSE proxies[x[2]]
SameProxyFor(x, r) ==
    /\ r[1] = "proxy" /\ r[2] \in 1..Len(proxies') /\ proxies'[r[2]] = TargetOf(x)
    /\ reactiveMap'[TargetOf(x)] = r[2]
    /\ reactiveMap[TargetOf(x)] # NoProxy => r[2] = reactiveMap[TargetOf(x)]

C5_IdentityUnique ==
    [][ /\ NoDup(proxies')
        /\ \A x \in {Raw(t) : t \in Targets} \cup {Proxy(p) : p \in 1..Len(proxies)} :
              CallReactive(x) => /\ SameProxyFor(x, ret')
                                 /\ IsReactive(x) => ret' = x
        /\ \A k \in Keys : (Get(k) /\ isObj(val[k])) => SameProxyFor(val[k], ret') ]_vars

(* reactive() was called again on a target wrapped earlier and returned the earlier Proxy *)
C5_Witness == Len(proxies) = 3 /\ ret = Proxy(2)

(* C6: ref(container) throws and creates nothing; assigning a container to r.value throws, *)
(* leaves the stored value and notifies nobody; assigning a different primitive succeeds   *)
(* and hands each subscriber to its scheduler / the queue exactly once.                    *)
C6_RefStrict ==
    [][ /\ \A v \in RefInputs : (Ref(v) /\ isObj(v)) => err' = "ref" /\ refv' = NoRef
        /\ \A nv \in RefInputs : (RefSet(nv) /\ isObj(nv)) =>
              /\ err' = "ref" /\ refv' = refv
              /\ notified' = <<>> /\ ran' = <<>> /\ effectQueue' = effectQueue
        /\ \A nv \in RefInputs : (RefSet(nv) /\ ~isObj(nv) /\ nv # refv) =>
              /\ err' = "none" /\ refv' = nv
              /\ \A e \in UserEffects : Count(e, notified') = IF InSeq(e, subs["r"]) THEN 1 ELSE 0 ]_vars

(* An assignment of a container to r.value was rejected while r had two subscribers *)
C6_Witness ==
    /\ err = "ref" /\ refv \in Prims /\ Len(subs["r"]) = 2
    /\ notified = <<>> /\ effectQueue = <<>>

(* The scope s and every scope below it, following the children lists *)
RECURSIVE SubScopes(_)
SubScopes(s) ==
    {s} \cup UNION {SubScopes(scopes[s].children[i]) : i \in 1..Len(scopes[s].children)}

(* The releases of the last cleanup came in the order: child scopes, own effects, own listeners *)
ReleasedInOrder(rel) ==
    \A i, j \in 1..Len(rel) :
        /\ rel[i][3] \in SubScopes(rel[j][3]) \ {rel[j][3]} => i < j
        /\ (rel[i][3] = rel[j][3] /\ rel[i][1] = "stop" /\ rel[j][1] = "remove") => i < j

(* C7: one cleanup() of a scope stops every effect and removes every listener of the scope *)
(* and of all scopes below it, children first, then its own effects, then its own          *)
(* listeners, and leaves their lists empty; nothing is thrown and nothing is released that  *)
(* was released before, so a repeated cleanup() releases nothing.                          *)
C7_ScopeCleanup ==
    [][ \A s \in 1..Len(scopes) : Cleanup(s) =>
          /\ \A d \in SubScopes(s) :
                /\ \A e \in Range(scopes[d].effects) : ~effects'[e].active
                /\ \A l \in Range(scopes[d].listeners) : l \notin attached'
                /\ scopes'[d] = EmptyScope
          /\ err' = "none"
          /\ ReleasedInOrder(released')
          /\ NoDup(released')
          /\ \A i \in 1..Len(released') :
                IF released'[i][1] = "stop" THEN effects[released'[i][2]].active
                ELSE released'[i][2] \in attached
          /\ \A d \in 1..Len(scopes) \ SubScopes(s) : scopes'[d] = scopes[d] ]_vars

(* A parent with two child scopes, one effect in each of the three, was cleaned up by one call *)
C7_Witness ==
    /\ effectId = 4 /\ Len(released) = 3
    /\ \A i \in 1..3 : released[i][1] = "stop"
    /\ {released[i][3] : i \in 1..Len(released)} = {1, 2, 3}
    /\ released[3][3] = RootScope
    /\ \A e \in 1..3 : ~effects[e].active

(* The effect of the conditional group / of the list ran in the last step *)
IfRan == \E e \in 1..(effectId' - 1) : effects'[e].fn = "zif" /\ InSeq(e, ran')
ListRan == \E e \in 1..(effectId' - 1) : effects'[e].fn = "zfor" /\ InSeq(e, ran')

(* The first branch in source order whose condition is truthy under the values v *)
FirstTruthy(v, brs) ==
    LET T == {i \in 1..Len(brs) : brs[i].type = "z-else" \/ Truthy(v[brs[i].exp])}
    IN  IF T = {} THEN NoBranch ELSE CHOOSE i \in T : \A j \in T : i <= j

(* The scope sc was cleaned up and detached from the root by the step: the effects and *)
(* listeners it held before are stopped and removed                                     *)
CleanedAndDetached(sc) ==
    /\ \A e \in Range(scopes[sc].effects) : ~effects'[e].active
    /\ \A l \in Range(scopes[sc].listeners) : l \notin attached'
    /\ scopes'[sc] = EmptyScope
    /\ ~InSeq(sc, scopes'[RootScope].children)

(* C8: after every run of the group's effect exactly the first truthy branch (or none) is *)
(* mounted, with its clone in the document and a live child Scope of the parent; a branch  *)
(* mounted before the run that is not the chosen one has its clone removed and its Scope   *)
(* cleaned up and detached by the end of the run.                                          *)
C8_Selection ==
    [][ IfRan =>
          /\ \A i \in 1..Len(branches') :
                IF i = FirstTruthy(val', branches')
                THEN /\ branches'[i].el # Null /\ branches'[i].scope # Null
                     /\ dom' = <<branches'[i].el>>
                     /\ InSeq(branches'[i].scope, scopes'[RootScope].children)
                     /\ scopes'[branches'[i].scope].effects # <<>>
                     /\ \A e \in Range(scopes'[branches'[i].scope].effects) :
                           effects'[e].active
                     /\ \A l \in Range(scopes'[branches'[i].scope].listeners) :
                           l \in attached'
                ELSE branches'[i].el = Null /\ branches'[i].scope = Null
          /\ FirstTruthy(val', branches') = NoBranch => dom' = <<>>
          /\ \A i \in 1..Len(branches) :
                (branches[i].el # Null /\ i # FirstTruthy(val', branches')) =>
                    /\ ~InSeq(branches[i].el, dom')
                    /\ CleanedAndDetached(branches[i].scope) ]_vars

(* In if(a) / else-if(b) / else the group's effect switched from a later branch to the if branch *)
C8_Witness ==
    /\ Len(branches) = 3 /\ branches[1].el # Null /\ nodeId >= 2
    /\ released # <<>> /\ InSeq(1, ran)
    /\ val["a"] = Prim(1)

(* C9: at no instant, the steps inside one run of the group's effect included, are two *)
(* branches of the group mounted at once.                                               *)
C9_Exclusive == mountedPeak <= 1

(* Between the runs of the effect at most one branch is mounted *)
C9_ExclusiveBetweenRuns == Cardinality(Mounted(branches)) <= 1

(* The item v at index i of the new array derives a key recorded in the previous render *)
(* and is the object recorded for it                                                     *)
SameIdentity(v, i) ==
    /\ isObj(v)
    /\ reactiveMap[rawOf(Cur, v)] # NoProxy
    /\ MapGet(itemsMap, keyOf(Cur, v, i)).itemValue = Proxy(reactiveMap[rawOf(Cur, v)])

NewKeys == {keyOf(Cur, list[i], i) : i \in 1..Len(list)}
OldKeys == {itemsMap[j].key : j \in 1..Len(itemsMap)}

(* Keys of the previous render found again, every time with the recorded identity *)
UnchangedKeys ==
    {k \in OldKeys \cap NewKeys :
        \A i \in 1..Len(list) : keyOf(Cur, list[i], i) = k => SameIdentity(list[i], i)}

(* The record of key k, its clone and its Scope are after the step what they were before *)
Kept(k) ==
    LET item == MapGet(itemsMap, k) IN
    /\ MapHas(itemsMap', k) /\ MapGet(itemsMap', k) = item
    /\ InSeq(item.clone, dom) => InSeq(item.clone, dom')
    /\ InSeq(item.scope, scopes'[RootScope].children)
          <=> InSeq(item.scope, scopes[RootScope].children)
    /\ scopes'[item.scope] = scopes[item.scope]
    /\ \A e \in Range(scopes[item.scope].effects) : effects'[e].active = effects[e].active
    /\ \A l \in Range(scopes[item.scope].listeners) : l \in attached' <=> l \in attached
    /\ \A j \in 1..Len(released') : released'[j][3] # item.scope

(* C10: when the list effect re-runs, the clone and Scope of every key found again with the *)
(* recorded object identity are kept, whatever the new order; and when every item whose key *)
(* was in the previous render is the recorded object, a key present only in the previous    *)
(* render has its clone removed (and its Scope cleaned up) and a key present only in the    *)
(* new render has a newly created clone in the document.                                    *)
C10_KeyedReuse ==
    [][ (Flush /\ ListRan) =>
          /\ \A k \in UnchangedKeys : Kept(k)
          /\ UnchangedKeys = OldKeys \cap NewKeys =>
                /\ err' = "none"
                /\ \A k \in OldKeys \ NewKeys :
                      /\ ~MapHas(itemsMap', k)
                      /\ ~InSeq(MapGet(itemsMap, k).clone, dom')
                      /\ CleanedAndDetached(MapGet(itemsMap, k).scope)
                /\ \A k \in NewKeys \ OldKeys :
                      /\ MapHas(itemsMap', k)
                      /\ MapGet(itemsMap', k).clone > nodeId
                      /\ InSeq(MapGet(itemsMap', k).clone, dom')
                /\ {itemsMap'[j].key : j \in 1..Len(itemsMap')} = NewKeys ]_vars

(* Two keyed objects were rendered and then rendered again in the opposite order *)
C10_Witness ==
    /\ keyAttr = "item.id" /\ Len(list) = 2 /\ Len(itemsMap) = 2
    /\ nodeId = 2 /\ dom = <<2, 1>> /\ InSeq(1, ran)
    /\ \A e \in 2..3 : effects[e].active

(* The effects of the queue a flush will run: the active ones *)
PendingActive == {e \in Range(effectQueue) : effects[e].active}
Ascending(s) == \A i, j \in 1..Len(s) : i < j => s[i] < s[j]

(* C11: a flush runs the pending effects once each in ascending creation-order id,  *)
(* whatever their order in the queue; an effect enqueued while the flush runs is    *)
(* not run by it: it is left in the queue with a later flush scheduled.             *)
C11_FlushOrder ==
    [][Flush =>
          /\ Range(ran') = PendingActive
          /\ Ascending(ran')
          /\ \A e \in Range(notified') :
                 InSeq(e, effectQueue') /\ pendingFlush' > 0 /\ isFlushing']_vars

(* a flush found the queue in descending id order and ran it in ascending order *)
C11_Witness == flushed = <<2, 1>> /\ ran = <<1, 2>>

(* C12: when the body of a queued effect throws during a flush, the flush catches    *)
(* the error and still runs every other active effect of the queue, once; the        *)
(* throwing effect stays active and subscribed to the Deps it read before the throw, *)
(* so a later change enqueues it again; activeEffect and effectStack end as they     *)
(* were (no effect running).                                                         *)
C12_FailureIsolation ==
    [][Flush /\ threw' # <<>> =>
          /\ err' = "effect"
          /\ \A e \in PendingActive : Count(e, ran') = 1
          /\ \A e \in Range(threw') :
                 /\ effects'[e].active
                 /\ effects'[e].deps # <<>>
                 /\ \A d \in Range(effects'[e].deps) : InSeq(e, subs'[d])
          /\ activeEffect' = activeEffect /\ activeEffect' = Null
          /\ effectStack' = effectStack /\ effectStack' = <<>>]_vars

(* the first effect of a flush threw and the second one ran after it *)
C12_Witness ==
    /\ flushed # <<>> /\ threw = <<1>> /\ ran = <<1, 2>>
    /\ effects[1].active /\ InSeq(1, subs["c.a"])

(* Effects whose stop function has returned *)
Stopped == {e \in UserEffects : ~effects[e].active}
NotRerun(e) == ~InSeq(e, ran') /\ Count(e, effectQueue') <= Count(e, effectQueue)

(* C13: once stop() has returned for an effect, no step enqueues it or executes its *)
(* body: no mutation of state it had read, and no flush that finds it in the queue. *)
C13_StopPermanent ==
    [][\A e \in Stopped : NotRerun(e)]_vars

(* the same for effects that hold no subscription: every effect stopped while it *)
(* was not running                                                               *)
C13_StopOutsideRun ==
    [][\A e \in Stopped : (\A d \in Deps : ~InSeq(e, subs[d])) => NotRerun(e)]_vars

(* stop() called by the application on an active effect leaves it inactive and *)
(* without subscriptions                                                      *)
C13_StopUnsubscribes ==
    [][\A e \in UserEffects \ Stopped :
          Stop(e) => ~effects'[e].active /\ \A d \in Deps : ~InSeq(e, subs'[d])]_vars

(* A step that is a call of an array mutator on c.list *)
Mutation == \E method \in ArrayMethods : \E x \in ArgsOf(method, Len(list)) : Mutate(method, x)
Requeued(e) == InSeq(e, effectQueue') /\ pendingFlush' > 0
ReadChangedIndex(e) ==
    \E i \in 0..MaxLen : Subscribed(e, IdxDep(i)) /\ At(list, i) # At(list', i)
ReadChangedLength(e) == Subscribed(e, "list.length") /\ Len(list) # Len(list')
Iterated(e) == Subscribed(e, "list.iter")

(* C14: after a mutator call on a reactive array, every effect that read an index  *)
(* whose value the call changed (also one that became absent or present), read the *)
(* length when it changed, or iterated the array, is pending for the next flush.   *)
C14_ArrayReactive ==
    [][Mutation =>
          \A e \in UserEffects :
             ReadChangedIndex(e) \/ ReadChangedLength(e) \/ Iterated(e) => Requeued(e)]_vars

(* the part of it that holds: readers of the length and iterating effects *)
C14_LengthAndIteration ==
    [][Mutation =>
          \A e \in UserEffects : ReadChangedLength(e) \/ Iterated(e) => Requeued(e)]_vars

(* C15: the body of an effect without a scheduler is executed only by its creation *)
(* and by flushes: a write, delete or array mutator call that notifies it (also    *)
(* one made by the body of a synchronously scheduled effect) does not run it and   *)
(* leaves it in the queue with a flush scheduled.                                  *)
C15_Deferral ==
    [][~Flush =>
          \A e \in UserEffects :
             Plain(e) =>
                /\ ~InSeq(e, ran')
                /\ InSeq(e, notified') => InSeq(e, effectQueue') /\ pendingFlush' > 0]_vars

(* one write notified both effects: the scheduled one ran in it, the other is pending *)
C15_Witness ==
    /\ effectId = 3 /\ Plain(1) /\ effects[2].scheduler = "sync" /\ effects[2].fn = "readA"
    /\ notified = <<1, 2>> /\ ran = <<2>>
    /\ effectQueue = <<1>> /\ pendingFlush = 1

(* What every unmount() step shows, tested before the action itself: no flush, no *)
(* new effect or clone, c as it was                                               *)
MayUnmount ==
    flushed' = <<>> /\ ran' = <<>> /\ effectId' = effectId /\ nodeId' = nodeId
        /\ list' = list /\ val' = val

(* C16: app.unmount() leaves every effect created by setup and by compilation, also *)
(* those owned by the Scopes of mounted branches and list items, stopped and every  *)
(* listener removed; from then on no write and no flush runs any of their bodies.   *)
C16_UnmountReleases ==
    [][/\ (MayUnmount /\ Unmount) =>
             /\ \A e \in UserEffects : ~effects'[e].active
             /\ \A e \in UserEffects : \A d \in Deps : ~InSeq(e, subs'[d])
             /\ attached' = {}
             /\ \A s \in 1..Len(scopes) : scopes'[s] = EmptyScope
       /\ \A e \in Stopped : ~effects'[e].active /\ ~InSeq(e, ran')]_vars

(* unmount() has just released a mounted template of four effects: setup's, the   *)
(* directive's and those of two child Scopes, with their listeners                *)
C16_Witness ==
    /\ effectId >= 5 /\ listenerId >= 2
    /\ Cardinality({i \in 1..Len(released) : released[i][1] = "stop"}) >= 4
    /\ Cardinality({i \in 1..Len(released) : released[i][1] = "remove"}) >= 2
    /\ \A e \in UserEffects : ~effects[e].active
    /\ attached = {}

(* The keys the list effect derives for the array in c.list, in the array's order *)
KeyAt(i) == keyOf(Cur, list[i], i)
DistinctKeys == \A i, j \in 1..Len(list) : KeyAt(i) = KeyAt(j) => i = j
(* After the step the document holds, in the array's order, the clone recorded for *)
(* each key, and nothing else                                                      *)
InArrayOrder ==
    /\ \A i \in 1..Len(list) : MapHas(itemsMap', KeyAt(i))
    /\ dom' = [i \in 1..Len(list) |-> MapGet(itemsMap', KeyAt(i)).clone]
    /\ NoDup(dom')

(* C17: when the keys derived for the array are pairwise distinct, after every run *)
(* of the list effect the clones after the anchor are exactly the clones recorded  *)
(* for the new keys, one per item, in the array's order.                           *)
C17_ListOrder ==
    [][(Flush /\ ListRan /\ DistinctKeys) => InArrayOrder]_vars

(* the same for the runs that reach the reordering loop *)
C17_ListOrderCompleted ==
    [][(Flush /\ ListRan /\ DistinctKeys /\ err' = "none") => InArrayOrder]_vars

(* The Scopes the list has created: every Scope but the root; createItem makes the *)
(* clone n together with the Scope n + 1                                           *)
ListScopes == 2..Len(scopes')
CloneOf(sc) == sc - 1
Recorded == {itemsMap'[j].scope : j \in 1..Len(itemsMap')}
LiveAfter(sc) ==
    \/ scopes'[sc] # EmptyScope
    \/ InSeq(sc, scopes'[RootScope].children)

(* C18: after every run of the list effect, for any sequence of arrays (duplicate   *)
(* keys included), the Scopes the list created and has not cleaned up are exactly   *)
(* those recorded in the key-to-item map, each with its clone in the document; every *)
(* other Scope it created is cleaned up, detached from the parent, its clone removed. *)
C18_ScopeAccounting ==
    [][(Flush /\ ListRan) =>
          \A sc \in ListScopes :
             IF sc \in Recorded
             THEN /\ scopes'[sc] # EmptyScope
                  /\ InSeq(sc, scopes'[RootScope].children)
                  /\ \A e \in Range(scopes'[sc].effects) : effects'[e].active
                  /\ \E j \in 1..Len(itemsMap') :
                         itemsMap'[j].scope = sc /\ InSeq(itemsMap'[j].clone, dom')
             ELSE /\ ~LiveAfter(sc)
                  /\ ~InSeq(CloneOf(sc), dom')]_vars

(* the same for runs on arrays with pairwise distinct keys that finish, from a state *)
(* in which the accounting is exact                                                  *)
C18_DistinctKeysStep ==
    [][(Flush /\ ListRan /\ DistinctKeys /\ err' = "none"
          /\ \A sc \in 2..Len(scopes) :
                 (scopes[sc] # EmptyScope \/ InSeq(sc, scopes[RootScope].children))
                    <=> sc \in {itemsMap[j].scope : j \in 1..Len(itemsMap)}) =>
          \A sc \in ListScopes :
             IF sc \in Recorded
             THEN scopes'[sc] # EmptyScope /\ InSeq(sc, scopes'[RootScope].children)
             ELSE ~LiveAfter(sc) /\ ~InSeq(CloneOf(sc), dom')]_vars

(* Indices of the array whose key was rendered before and whose value is a primitive *)
PrimitiveAgain == {i \in 1..Len(list) : KeyAt(i) \in OldKeys /\ ~isObj(list[i])}
(* the last index deriving the same key as i *)
LastWith(i) == CHOOSE j \in 1..Len(list) :
                   KeyAt(j) = KeyAt(i) /\ \A h \in (j + 1)..Len(list) : KeyAt(h) # KeyAt(i)
(* the callback for index j finds a record without a Ref for a primitive value *)
ThrowsAt(j) == j \in PrimitiveAgain /\ MapGet(itemsMap, KeyAt(j)).itemRef = Null
Reached(i) == \A j \in 1..i : ~ThrowsAt(j)

(* The in-place update of the record item by the values the array holds under its key *)
UpdatedInPlace(i, item) ==
    /\ Kept(item.key)
    /\ item.itemRef # Null
    /\ irefs'[item.itemRef] = list[LastWith(i)]
    /\ \A e \in Range(scopes[item.scope].effects) :
           /\ irefs'[item.itemRef] # irefs[item.itemRef] => InSeq(e, effectQueue')
           /\ InSeq(e, effectQueue') =>
                  \E j \in 1..Len(list) :
                      KeyAt(j) = item.key /\ list[j] # irefs[item.itemRef]
    /\ \A o \in Range(itemsMap) :
           o.scope # item.scope =>
              \A e \in Range(scopes[o.scope].effects) :
                 InSeq(e, notified') =>
                    /\ o.itemRef # Null
                    /\ \E j \in PrimitiveAgain :
                           KeyAt(j) = o.key /\ list[j] # irefs[o.itemRef]

(* C19: when a key is present in the previous and in the new render and the item    *)
(* value is a primitive, the item's clone and Scope are kept and its Ref is assigned *)
(* the new value; the effects reading the Ref are enqueued only if the value         *)
(* changed, and no effect of another item is notified by the update.                 *)
C19_InPlaceUpdate ==
    [][(Flush /\ ListRan) =>
          \A i \in PrimitiveAgain : UpdatedInPlace(i, MapGet(itemsMap, KeyAt(i)))]_vars

(* the same for the items the run reaches whose record holds a Ref *)
C19_InPlaceWithRef ==
    [][(Flush /\ ListRan) =>
          \A i \in PrimitiveAgain :
             Reached(LastWith(i)) => UpdatedInPlace(i, MapGet(itemsMap, KeyAt(i)))]_vars

(* Indices whose key was rendered before and whose value is a container with another *)
(* proxy identity than the recorded one                                              *)
IdentityChanged ==
    {i \in 1..Len(list) :
        KeyAt(i) \in OldKeys /\ isObj(list[i]) /\ ~SameIdentity(list[i], i)}

(* The record under the key of index i was rebuilt by the step *)
Rebuilt(i) ==
    LET old == MapGet(itemsMap, KeyAt(i)) IN
    /\ ~InSeq(old.clone, dom')
    /\ CleanedAndDetached(old.scope)
    /\ MapHas(itemsMap', KeyAt(i))
    /\ MapGet(itemsMap', KeyAt(i)).clone > nodeId
    /\ MapGet(itemsMap', KeyAt(i)).scope > Len(scopes)
    /\ MapGet(itemsMap', KeyAt(i)).itemRef = Null
    /\ IsReactive(MapGet(itemsMap', KeyAt(i)).itemValue)
    /\ proxies'[MapGet(itemsMap', KeyAt(i)).itemValue[2]] = rawOf(Cur, list[i])
    /\ scopes'[MapGet(itemsMap', KeyAt(i)).scope] # EmptyScope
    /\ InSeq(MapGet(itemsMap', KeyAt(i)).scope, scopes'[RootScope].children)

(* C20: when a key is present in both renders and the item value is a reactive      *)
(* container whose proxy identity differs from the recorded one, the run removes the *)
(* old clone, cleans up and detaches its Scope, and creates and records under the    *)
(* key a new clone and Scope bound to the new container.                             *)
C20_Rebuild ==
    [][(Flush /\ ListRan /\ DistinctKeys) => \A i \in IdentityChanged : Rebuilt(i)]_vars

(* the same for the runs that finish *)
C20_RebuildCompleted ==
    [][(Flush /\ ListRan /\ DistinctKeys /\ err' = "none") =>
          \A i \in IdentityChanged : Rebuilt(i)]_vars

(* The Deps a run of the body fn reads when c holds the values v *)
ReadsOf(fn, v) ==
    CASE fn = "readBIfA" -> (IF v["a"] \in {Prim(0), Undefined, Absent}
                             THEN {"c.a"} ELSE {"c.a", "c.b"})
      [] fn = "readB"    -> {"c.b"}
      [] fn \in {"readA", "throwA"}    -> {"c.a"}
      [] fn \in {"nest", "nestCatch"}  -> {"c.b"}
      [] OTHER           -> {}

(* After the step, e is subscribed to exactly the Deps of D, each once *)
SubscribedExactly(e, D) ==
    /\ Range(effects'[e].deps) = D
    /\ NoDup(effects'[e].deps)
    /\ \A d \in Deps : InSeq(e, subs'[d]) <=> d \in D

(* C21: after each run of an active effect the Deps it is subscribed to are exactly *)
(* the Deps read during that run, and a value-changing write to a slot it read in   *)
(* an earlier run but not in its latest run neither notifies nor enqueues it.       *)
C21_Recollection ==
    [][ /\ \A e \in 1..(effectId' - 1) :
              (InSeq(e, ran') /\ effects'[e].active) =>
                  SubscribedExactly(e, ReadsOf(effects'[e].fn, val'))
        /\ \A k \in Keys : \A v \in Prims : Set(k, v) =>
              \A e \in UserEffects : ~Subscribed(e, KeyDep(k)) =>
                  /\ ~InSeq(e, notified') /\ ~InSeq(e, ran')
                  /\ InSeq(e, effectQueue') <=> InSeq(e, effectQueue) ]_vars

(* The flush just re-ran the conditional reader alone, with c.a falsy: it is *)
(* subscribed to c.a and not to c.b, which the other effect keeps.           *)
C21_Witness ==
    /\ effectId = 3
    /\ effects[1].fn = "readB" /\ effects[2].fn = "readBIfA" /\ Plain(2)
    /\ flushed = <<2>> /\ ran = <<2>>
    /\ val["a"] = Prim(0)
    /\ effects[2].deps = <<"c.a">> /\ subs["c.b"] = <<1>>
(* Effects whose body reads c.a and then assigns it 1 *)
Writer(e) == effects[e].fn = "readASetA"

(* The first element of the sequence q that is in the set W *)
FirstIn(q, W) == q[CHOOSE i \in 1..Len(q) : q[i] \in W /\ \A j \in 1..(i - 1) : q[j] \notin W]

(* In this step the body of e ran once; e was handed to its scheduler or the queue *)
(* only by the `outer` writes made outside its run, and it is not pending.         *)
OwnWriteSkipped(e, outer) ==
    /\ Count(e, ran') = 1
    /\ Count(e, notified') = outer
    /\ ~InSeq(e, effectQueue')

(* Every other effect subscribed to c.a was notified by the write of e as well: *)
(* enqueued with a flush scheduled, or run by its scheduler.                     *)
OthersNotified(e, outer) ==
    \A f \in UserEffects \ {e} : Subscribed(f, "c.a") =>
        /\ Count(f, notified') = outer + 1
        /\ Plain(f) => Count(f, effectQueue') = 1 /\ pendingFlush' > 0
        /\ ~Plain(f) => InSeq(f, ran')

(* C22: when the body of an effect changes a slot it has read in the same run, that *)
(* write neither enqueues the effect nor invokes its scheduler, and every other      *)
(* subscriber of the slot is notified.  The three ways a body comes to run: at        *)
(* creation, in a flush (the first pending writer changes c.a), and inside a write    *)
(* of the application through a scheduler job => job().                               *)
C22_ReentrancyGuard ==
    [][ /\ \A s \in Schedulers :
              (WatchEffect("readASetA", s) /\ val["a"] # Prim(1)) =>
                  OwnWriteSkipped(effectId, 0) /\ OthersNotified(effectId, 0)
        /\ (Flush /\ val["a"] # Prim(1)
                  /\ \E e \in Range(effectQueue) : Writer(e)) =>
              \E e \in {FirstIn(SortById(effectQueue), {w \in UserEffects : Writer(w)})} :
                  OwnWriteSkipped(e, 0) /\ OthersNotified(e, 0)
        /\ (Set("a", Prim(0)) /\ val["a"] # Prim(0)
                  /\ \E e \in Range(subs["c.a"]) : Writer(e) /\ ~Plain(e)) =>
              \E e \in {FirstIn(subs["c.a"], {w \in UserEffects : Writer(w) /\ ~Plain(w)})} :
                  OwnWriteSkipped(e, 1) /\ OthersNotified(e, 1) ]_vars

(* A writer with a scheduler was created while a plain reader of c.a existed: its *)
(* body ran once, it is subscribed to c.a and not pending, c.a holds what it wrote, *)
(* and the reader is pending.                                                       *)
C22_Witness ==
    /\ effectId = 3
    /\ effects[1].fn = "readA" /\ Plain(1)
    /\ effects[2].fn = "readASetA" /\ ~Plain(2)
    /\ ran = <<2>> /\ notified = <<1>>
    /\ Subscribed(2, "c.a") /\ val["a"] = Prim(1)
    /\ effectQueue = <<1>> /\ pendingFlush = 1
(* C23: in every state between two synchronous blocks the pending queue holds no *)
(* effect twice, at most one flush microtask is scheduled and not yet started,    *)
(* and one is scheduled exactly when the pending queue is non-empty.              *)
C23_FlushScheduling ==
    /\ NoDup(effectQueue)
    /\ pendingFlush <= 1
    /\ pendingFlush > 0 <=> effectQueue # <<>>

(* The flush that just ended ran two effects; the write made by the body of the *)
(* second enqueued the first again, and one new flush is scheduled for it.       *)
C23_Witness ==
    /\ effectId = 3
    /\ flushed = <<2, 1>> /\ ran = <<1, 2>>
    /\ effects[2].fn = "readBSetA"
    /\ effectQueue = <<1>> /\ pendingFlush = 1
(* e is in the pending queue and active *)
Waiting(e) == e < effectId /\ InSeq(e, effectQueue) /\ effects[e].active

(* the last action invoked the body of e, or e is stopped *)
RanOrStopped(e) == e < effectId /\ (InSeq(e, ran) \/ ~effects[e].active)

(* C24: every active effect in the pending queue, also one enqueued by a write made *)
(* while a flush was executing, is eventually run by a flush unless it is stopped.   *)
C24_NoLostWakeup == \A e \in 1..MaxEffects : Waiting(e) ~> RanOrStopped(e)

(* The flush that just ended found only effect 2 pending; the write of its body *)
(* enqueued effect 1, which now waits for the flush scheduled meanwhile.         *)
C24_Witness ==
    /\ effectId = 3
    /\ effects[1].fn = "readA" /\ effects[2].fn = "readBSetA"
    /\ flushed = <<2>> /\ ran = <<2>>
    /\ Waiting(1) /\ effectQueue = <<1>> /\ pendingFlush = 1
(* e was handed on by the step: pending once with a flush scheduled, or run by its scheduler *)
Rerun(e) ==
    /\ InSeq(e, notified')
    /\ Plain(e) => Count(e, effectQueue') = 1 /\ pendingFlush' = 1 /\ ~InSeq(e, ran')
    /\ ~Plain(e) => InSeq(e, ran')

(* C25: delete c.k for a key c owns hands on every effect that read c.k and every  *)
(* effect that enumerated c, and the next flush runs each pending one once; delete  *)
(* c.k for a key c does not own notifies, runs and enqueues nothing.                *)
C25_Deletion ==
    [][ /\ \A k \in Keys : Delete(k) =>
              IF val[k] # Absent
              THEN \A e \in UserEffects :
                       (Subscribed(e, KeyDep(k)) \/ Subscribed(e, "c.iter")) => Rerun(e)
              ELSE /\ notified' = <<>> /\ ran' = <<>>
                   /\ effectQueue' = effectQueue /\ pendingFlush' = pendingFlush
        /\ FlushRunsPendingOnce({e \in UserEffects : Plain(e)}) ]_vars

(* delete c.a just removed the key: the reader of c.a and the enumerator are pending *)
C25_Witness ==
    /\ effectId = 3
    /\ effects[1].fn = "readA" /\ effects[2].fn = "enumerate" /\ Plain(1) /\ Plain(2)
    /\ val["a"] = Absent /\ writes = {"a"}
    /\ notified = <<1, 2>> /\ effectQueue = <<1, 2>> /\ pendingFlush = 1
(* the keys c owns *)
OwnedKeys == {k \in Keys : val[k] # Absent}
Enumerator(e) == e < effectId /\ effects[e].fn = "enumerate"

(* C26: a step that creates a key c did not own, or removes one it owned, hands on *)
(* every effect that enumerated c in its last run (pending with a flush scheduled, *)
(* or run by its scheduler); the flush runs every pending one, and a pending       *)
(* enumerator is eventually run.                                                   *)
C26_Enumeration ==
    /\ [][ /\ OwnedKeys' # OwnedKeys =>
                 \A e \in UserEffects : Subscribed(e, "c.iter") => Rerun(e)
           /\ FlushRunsPendingOnce({e \in UserEffects : Plain(e)}) ]_vars
    /\ \A e \in 1..MaxEffects : (Waiting(e) /\ Enumerator(e)) ~> RanOrStopped(e)

(* c owns both keys and the last step notified the enumerator, which does not read *)
(* c.a or c.b: the step created a key that had been deleted.                       *)
C26_Witness ==
    /\ effectId = 2 /\ Enumerator(1) /\ Plain(1)
    /\ OwnedKeys = Keys /\ writes # {}
    /\ notified = <<1>> /\ Waiting(1) /\ pendingFlush = 1
(* C27: in every step, each effect whose body ran is subscribed to exactly the Deps *)
(* its own body reads: what an inner effect reads subscribes the inner effect only, *)
(* and what the outer body reads after the inner run has ended, normally or by a    *)
(* throw, subscribes the outer effect; between synchronous blocks no effect is      *)
(* active and the stack is empty.                                                   *)
C27_NestedEffects ==
    /\ [][ \A e \in 1..(effectId' - 1) :
               (InSeq(e, ran') /\ effects'[e].active) =>
                   SubscribedExactly(e, ReadsOf(effects'[e].fn, val')) ]_vars
    /\ [](activeEffect = Null /\ effectStack = <<>>)

(* The outer effect was just created with c.a truthy: the inner effect read c.a and *)
(* threw, the outer body caught that and read c.b.                                  *)
C27_Witness ==
    /\ effectId = 3
    /\ effects[1].fn = "nestCatch" /\ effects[2].fn = "throwA"
    /\ ran = <<1, 2>> /\ threw = <<2>> /\ err = "none"
    /\ effects[1].deps = <<"c.b">> /\ effects[2].deps = <<"c.a">>
    /\ subs["c.a"] = <<2>> /\ subs["c.b"] = <<1>>
(* The step released nothing the Scope sc holds and left it as it was *)
Untouched(sc) ==
    /\ scopes'[sc] = scopes[sc]
    /\ InSeq(sc, scopes'[RootScope].children)
    /\ \A e \in Range(scopes[sc].effects) : effects'[e].active
    /\ \A l \in Range(scopes[sc].listeners) : l \in attached'
    /\ \A i \in 1..Len(released') : released'[i][3] # sc

(* C28: when the group's effect runs and chooses the branch that is mounted (the one *)
(* its previous run chose), the branch keeps its clone and its Scope: the clone stays *)
(* in the document, no clone and no Scope is created, and the Scope keeps its active  *)
(* effects and attached listeners.                                                    *)
C28_StableBranch ==
    [][ IfRan =>
          \A i \in 1..Len(branches) :
              (branches[i].el # Null /\ i = FirstTruthy(val', branches)) =>
                  /\ branches'[i] = branches[i]
                  /\ dom' = <<branches[i].el>>
                  /\ nodeId' = nodeId /\ Len(scopes') = Len(scopes)
                  /\ Untouched(branches[i].scope) ]_vars

(* The group's effect just ran because c.a was written twice in one tick, and chose *)
(* the if branch again: the first clone ever made is still the mounted one.          *)
C28_Witness ==
    /\ branches # <<>> /\ branches[1].el = 1 /\ branches[1].scope = 2
    /\ nodeId = 1 /\ dom = <<1>>
    /\ flushed = <<1>> /\ ran = <<1>> /\ effects[1].fn = "zif"
    /\ val["a"] = Prim(1) /\ released = <<>>
(* C29: in every state, an effect is in the subscriber set of a Dep exactly when the *)
(* Dep is in the effect's dependency list, and no dependency list holds a Dep twice;  *)
(* the computed's internal effect and stopped effects included.                       *)
C29_GraphConsistency ==
    \A e \in 0..(effectId - 1) :
        /\ \A d \in Deps : InSeq(e, subs[d]) <=> InSeq(d, effects[e].deps)
        /\ NoDup(effects[e].deps)
        /\ \A d \in Deps : Count(e, subs[d]) <= 1

(* An effect that stopped itself while running and read c.a afterwards: inactive, *)
(* with c.a in its list and itself among the subscribers of c.a, next to an       *)
(* active reader of c.a.                                                          *)
C29_Witness ==
    /\ effectId = 3
    /\ effects[1].fn = "readA" /\ effects[1].active
    /\ effects[2].fn = "stopSelf" /\ ~effects[2].active
    /\ effects[2].deps = <<"c.a">> /\ Range(subs["c.a"]) = {1, 2}
(* Indices of the array whose key was rendered before *)
KeyAgain == {i \in 1..Len(list) : KeyAt(i) \in OldKeys}

(* After the step the record item binds the value v: its Ref holds the primitive v, *)
(* or its item value is the proxy of the container v                                *)
BoundTo(item, v) ==
    IF isObj(v)
    THEN /\ IsReactive(item.itemValue)
         /\ proxies'[item.itemValue[2]] = rawOf(Cur, v)
    ELSE /\ item.itemRef # Null
         /\ irefs'[item.itemRef] = v

(* The run finished and the record under the key of index i binds the array's value *)
ReusedAndBound(i) ==
    /\ err' = "none"
    /\ MapHas(itemsMap', KeyAt(i))
    /\ BoundTo(MapGet(itemsMap', KeyAt(i)), list[LastWith(i)])

(* C30: a run of the list effect that finds a key of the previous render again *)
(* completes without throwing, and the record under that key binds the new item *)
(* value, whatever the kinds of the old and the new value.                      *)
C30_ReuseNeverFails ==
    [][(Flush /\ ListRan) => \A i \in KeyAgain : ReusedAndBound(i)]_vars

(* the same for the runs in which no primitive meets a record made for a container *)
C30_ReuseSameKind ==
    [][(Flush /\ ListRan /\ \A j \in 1..Len(list) : ~ThrowsAt(j)) =>
          \A i \in KeyAgain : ReusedAndBound(i)]_vars
LengthReader(e) == e < effectId /\ effects[e].fn = "readLen"

(* Every effect that read c.list.length in its last run is handed on by the step *)
LengthReadersRerun == \A e \in UserEffects : Subscribed(e, "list.length") => Rerun(e)

(* C31: every step that changes the length of c.list through the proxy (a mutator, *)
(* a write to length, a write to the index equal to the length) hands on each       *)
(* effect that read the length; the flush runs every pending one, and a pending     *)
(* reader of the length is eventually run.                                          *)
C31_LengthTracking ==
    /\ [][ /\ Len(list') # Len(list) => LengthReadersRerun
           /\ FlushRunsPendingOnce(UserEffects) ]_vars
    /\ \A e \in 1..MaxArrayEffects : (Waiting(e) /\ LengthReader(e)) ~> RanOrStopped(e)

(* the same for every step but a write to the index equal to the length *)
C31_LengthByMutatorOrLength ==
    /\ [][ /\ (Len(list') # Len(list) /\ ~\E v \in Prims : SetIndex(Len(list), v)) =>
                 LengthReadersRerun
           /\ FlushRunsPendingOnce(UserEffects) ]_vars
    /\ \A e \in 1..MaxArrayEffects : (Waiting(e) /\ LengthReader(e)) ~> RanOrStopped(e)
(* The effects a conditional group or a list created: those of its branches / items *)
Owner(o) == effects[o].fn \in {"zif", "zfor"}
CreatedBy(o) == {e \in UserEffects : e > o}
StoppedBy(o) == {e \in CreatedBy(o) : \E s \in 1..Len(scopes') : InSeq(<<"stop", e, s>>, released')}
FirstRun(e) == CHOOSE i \in 1..Len(ran') : ran'[i] = e /\ \A h \in 1..(i - 1) : ran'[h] # e

(* C32: an effect of a branch or item whose Scope was cleaned up is inactive and no *)
(* step executes it afterwards; the flush in which the group or list effect cleans  *)
(* the Scope up does not execute it either, pending or not; and when a flush runs   *)
(* the group or list effect and an effect it had created, it runs the owner first.  *)
C32_NoRunAfterUnmount ==
    [][\A o \in UserEffects : Owner(o) =>
          /\ \A e \in CreatedBy(o) : ~effects[e].active => ~InSeq(e, ran')
          /\ \A e \in StoppedBy(o) : ~effects'[e].active /\ ~InSeq(e, ran')
          /\ \A e \in CreatedBy(o) :
                 (InSeq(o, ran') /\ InSeq(e, ran')) => FirstRun(o) < FirstRun(e)]_vars

(* a flush that found the list effect and the text effect of an item pending has *)
(* run the list effect, which removed the item, and has not run the text effect  *)
PendingAtUnmount(kind) ==
    \E o, e \in UserEffects :
        /\ effects[o].fn = kind /\ e > o
        /\ InSeq(o, flushed) /\ InSeq(e, flushed)
        /\ InSeq(o, ran) /\ ~InSeq(e, ran)
        /\ \E s \in 1..Len(scopes) : InSeq(<<"stop", e, s>>, released)
        /\ ~effects[e].active

C32_Witness == PendingAtUnmount("zfor")
(* the step is a watchEffect whose first run threw *)
CreationThrew == effectId' = effectId + 1 /\ InSeq(effectId, threw')

(* an effect no Scope holds a stop function of although it is active: under *)
(* SpecThrow, an effect whose first run threw                               *)
FailedAtCreation(e) ==
    effects[e].active /\ \A s \in 1..Len(scopes) : ~InSeq(e, scopes[s].effects)

(* the throw of a first run reaches the caller: the error is outstanding when the *)
(* step ends, no stop function was returned and no Scope registered anything      *)
CreationPropagates ==
    CreationThrew => (err' # "none" /\ ret' = Undefined /\ scopes' = scopes)

(* C33: a watchEffect whose first run throws propagates the error, returns no stop *)
(* function and registers nothing in a Scope; and no later step executes the body  *)
(* of that effect, whatever is written to the state it read before it threw.       *)
C33_FailedCreation ==
    [][ /\ CreationPropagates
        /\ \A e \in UserEffects : FailedAtCreation(e) => ~InSeq(e, ran') ]_vars

(* the first half alone, and what the failed effect is left as: active, subscribed *)
(* to what it read before the throw, outside every Scope                           *)
C33_PropagatesAndStaysSubscribed ==
    [][ /\ CreationPropagates
        /\ CreationThrew =>
              /\ effects'[effectId].active
              /\ InSeq("c.a", effects'[effectId].deps)
              /\ InSeq(effectId, subs'["c.a"]) ]_vars
====
